---- MODULE Spec2Model ----
(***************************************************************************)
(* Model of the normalisation and market-metrics core of Scraper.Neoauto.  *)
(*                                                                         *)
(* Part 1: the rule table and the model classifier, as implemented twice:  *)
(*   main.py                       load_rules, get_model_base              *)
(*   Core/supabase_downloader_daily.py                                     *)
(*                                 _load_env_and_rules,                    *)
(*                                 _get_model_base_heuristic               *)
(* Part 2: the listing cleaner, as implemented twice:                      *)
(*   main.py                       process_data                            *)
(*   Core/market_analyzer.py       MarketAnalyzer._clean_data              *)
(*                                                                         *)
(* Python strings are sequences of one-character strings.  Three opaque    *)
(* symbols stand for values that are never taken apart: "NaN" (pandas'     *)
(* missing value / None), "Desconocido" (the sentinel word) and the rule   *)
(* targets "X1", "X2", ...                                                 *)
(***************************************************************************)
EXTENDS Integers, Sequences, FiniteSets, TLC

VARIABLES
    prog,                \* which Python module is running: "main", "daily",
                         \* "market_analyzer", "lead_filter", "main_daily", ...
    csv,                 \* the file at RULES_CSV_PATH
    LOADED_MODEL_RULES,  \* the module-level rule cache of the running module
    loadRet,             \* how the last call of the loader ended
    ret,                 \* the last classifier call: its arguments and result
    df_raw,              \* the listings handed to the cleaner
    out,                 \* what the cleaner returned
    metrics,             \* what the aggregation of the cleaned listings returned
    leads,               \* what filter_attractive_leads returned
    orchestrator,        \* main_daily.py: where main() stands, what it started
    fetch,               \* main.py fetch_all_data: its loop and what it holds
    scraper              \* the scraper's URL queue and its sessions

vars ==
    <<prog, csv, LOADED_MODEL_RULES, loadRet, ret, df_raw, out, metrics, leads,
      orchestrator, fetch, scraper>>

----------------------------------------------------------------------------
(* Python str operations                                                   *)

NaN == <<"NaN">>
Desconocido == <<"Desconocido">>

isna(x) == x = NaN

LowerChar(c) ==
    CASE c = "A" -> "a"
      [] c = "B" -> "b"
      [] c = "T" -> "t"
      [] c = "H" -> "h"
      [] c = "F" -> "f"
      [] c = "V" -> "v"
      [] c = "W" -> "w"
      [] c = "X1" -> "x1"
      [] c = "X2" -> "x2"
      [] c = "X3" -> "x3"
      [] c = "X4" -> "x4"
      [] c = "Desconocido" -> "desconocido"
      [] c = "DESCONOCIDO" -> "desconocido"
      [] OTHER -> c

UpperChar(c) ==
    CASE c = "a" -> "A"
      [] c = "b" -> "B"
      [] c = "t" -> "T"
      [] c = "h" -> "H"
      [] c = "f" -> "F"
      [] c = "v" -> "V"
      [] c = "w" -> "W"
      [] c = "x1" -> "X1"
      [] c = "x2" -> "X2"
      [] c = "x3" -> "X3"
      [] c = "x4" -> "X4"
      [] c = "desconocido" -> "DESCONOCIDO"
      [] OTHER -> c

IsCased(c) == LowerChar(c) # c \/ UpperChar(c) # c

\* the first letter of a word as str.title() writes it; the word that stands
\* for 'desconocido' has only its first letter upper-cased
TitleChar(c) ==
    IF LowerChar(c) = "desconocido" THEN "Desconocido" ELSE UpperChar(c)

lower(s) == [i \in 1..Len(s) |-> LowerChar(s[i])]

RECURSIVE lstrip(_)
lstrip(s) == IF s # <<>> /\ Head(s) = " " THEN lstrip(Tail(s)) ELSE s

RECURSIVE rstrip(_)
rstrip(s) ==
    IF s # <<>> /\ s[Len(s)] = " " THEN rstrip(SubSeq(s, 1, Len(s) - 1)) ELSE s

strip(s) == rstrip(lstrip(s))

\* str.title(): a cased character is upper-cased when it follows an uncased
\* one (or starts the string) and lower-cased otherwise.
title(s) ==
    [i \in 1..Len(s) |->
        IF i = 1 \/ ~IsCased(s[i - 1]) THEN TitleChar(s[i]) ELSE LowerChar(s[i])]

startswith(s, p) == Len(p) <= Len(s) /\ SubSeq(s, 1, Len(p)) = p

\* Python's  p in s
str_in(p, s) ==
    \E i \in 0..(Len(s) - Len(p)) : SubSeq(s, i + 1, i + Len(p)) = p

----------------------------------------------------------------------------
(* The rule source: reglas_modelos_base.csv                                *)

MaxRules == 2          \* rows in the rule file

TargetNames == <<"X1", "X2", "X3", "X4">>

MatchTypes == {"exact", "startswith", "contains"}

Priorities == {0, 1}

\* pattern cells as written in the file: the loaders lower-case and trim them
PatternCells == {<<"a">>, <<"A", "b", " ">>}

\* values of the file's own pattern_length column, when it has one
PatternLengths == {1, 2}

\* Rows of the make under study, and rows of another make whose pattern
\* matches widely.  match_type and priority cells are written in the file
\* already lower-case, trimmed and numeric.
OwnRows ==
    [make_rule_match : {<<"T">>},
     model_pattern_input_lower : PatternCells,
     match_type : MatchTypes,
     priority : Priorities,
     pattern_length : {0}]

ForeignRows ==
    [make_rule_match : {<<"h", " ">>},
     model_pattern_input_lower : {<<"a">>},
     match_type : {"contains"},
     priority : Priorities,
     pattern_length : {0}]

RuleRows == OwnRows \cup ForeignRows

\* The file's own pattern_length column, when it has one.
WithLength(t, ls) == [i \in 1..Len(t) |-> [t[i] EXCEPT !.pattern_length = ls[i]]]

\* The i-th row of a file carries the i-th target.
WithTargets(t) ==
    [i \in 1..Len(t) |->
        [make_rule_match |-> t[i].make_rule_match,
         model_pattern_input_lower |-> t[i].model_pattern_input_lower,
         model_base_target |-> <<TargetNames[i]>>,
         match_type |-> t[i].match_type,
         priority |-> t[i].priority,
         pattern_length |-> t[i].pattern_length]]

\* kind: "missing" (no file), "garbled" (read_csv raises), "table".
\* has_length: whether the file has a pattern_length column.
NoFile(kind) == [kind |-> kind, has_length |-> FALSE, rows |-> <<>>]

TableFile(t, has_length) ==
    [kind |-> "table", has_length |-> has_length, rows |-> WithTargets(t)]

\* csv is a rule file of at most MaxRules rows, or no readable file
IsCsvFile(file, with_length) ==
    \/ file \in {NoFile("missing"), NoFile("garbled")}
    \/ \E n \in 0..MaxRules : \E t \in [1..n -> RuleRows] :
          file = TableFile(t, FALSE)
    \/ /\ with_length
       /\ \E n \in 1..MaxRules :
            \E t \in [1..n -> RuleRows], ls \in [1..n -> PatternLengths] :
               file = TableFile(WithLength(t, ls), TRUE)

----------------------------------------------------------------------------
(* Loading the rules                                                       *)

\* LOADED_MODEL_RULES: None, or a DataFrame of rules
None == [loaded |-> FALSE, rows |-> <<>>]
DataFrame(rows) == [loaded |-> TRUE, rows |-> rows]

\* What a Python body does: it returns a value or it raises.
Return(v) == [raised |-> FALSE, val |-> v]
Raise(v) == [raised |-> TRUE, val |-> v]

\* the two sort keys in the other order: pattern length first, then priority
SortsBefore_length_first(r1, r2) ==
    \/ r1.pattern_length > r2.pattern_length
    \/ r1.pattern_length = r2.pattern_length /\ r1.priority > r2.priority

\* r1 sorts strictly before r2 under
\* sort_values(by=['priority', 'pattern_length'], ascending=[False, False])
SortsBefore(r1, r2) ==
    \/ r1.priority > r2.priority
    \/ r1.priority = r2.priority /\ r1.pattern_length > r2.pattern_length

\* the stable insertion of r into a sorted table: behind every row it does
\* not sort strictly before
RECURSIVE InsertRule(_, _)
InsertRule(t, r) ==
    IF t = <<>> THEN <<r>>
    ELSE IF SortsBefore(r, Head(t)) THEN <<r>> \o t
    ELSE <<Head(t)>> \o InsertRule(Tail(t), r)

RECURSIVE sort_values(_)
sort_values(t) ==
    IF t = <<>> THEN <<>>
    ELSE InsertRule(sort_values(SubSeq(t, 1, Len(t) - 1)), t[Len(t)])

\* .astype(str).str.lower().str.strip() on the two text columns both
\* loaders normalise
NormaliseText(t) ==
    [i \in 1..Len(t) |->
        [t[i] EXCEPT !.make_rule_match = strip(lower(@)),
                     !.model_pattern_input_lower = strip(lower(@))]]

\* LOADED_MODEL_RULES['pattern_length'] = ...['model_pattern_input_lower'].str.len()
SetPatternLength(t) ==
    [i \in 1..Len(t) |->
        [t[i] EXCEPT !.pattern_length = Len(t[i].model_pattern_input_lower)]]

\* main.py, the body of the try block of load_rules
load_rules_try(file) ==
    IF file.kind = "missing" THEN Return(None)
    ELSE IF file.kind = "garbled" THEN Raise(None)
    ELSE IF ~file.has_length THEN Raise(DataFrame(file.rows))
    ELSE Return(DataFrame(sort_values(NormaliseText(file.rows))))

\* load_rules without its except clause
load_rules_no_except(loaded, file) ==
    IF loaded # None THEN Return(loaded) ELSE load_rules_try(file)

\* load_rules without its test on the cache: every call reads the file
load_rules_always(loaded, file) ==
    LET r == load_rules_try(file)
    IN  IF r.raised THEN Return(DataFrame(<<>>)) ELSE r

\* main.py load_rules
load_rules(loaded, file) ==
    IF loaded # None THEN Return(loaded)
    ELSE LET r == load_rules_try(file)
         IN  IF r.raised THEN Return(DataFrame(<<>>)) ELSE r

\* supabase_downloader_daily.py, the body of the try block
load_env_and_rules_try(file) ==
    IF file.kind = "missing" THEN Return(DataFrame(<<>>))
    ELSE IF file.kind = "garbled" THEN Raise(None)
    ELSE Return(DataFrame(sort_values(SetPatternLength(NormaliseText(file.rows)))))

\* supabase_downloader_daily.py _load_env_and_rules (the rules half)
load_env_and_rules(loaded, file) ==
    IF loaded # None THEN Return(loaded)
    ELSE LET r == load_env_and_rules_try(file)
         IN  IF r.raised THEN Return(DataFrame(<<>>)) ELSE r

----------------------------------------------------------------------------
(* Classifying a model                                                     *)

\* the table without the filter on the make
rules_of_any_make(t, make) == t

\* LOADED_MODEL_RULES[LOADED_MODEL_RULES['make_rule_match'] == make]
rules_for_make(t, make) == SelectSeq(t, LAMBDA r : r.make_rule_match = make)

\* main.py: the condition of the if inside the loop of get_model_base
rule_applies(rule, model_lower) ==
    \/ rule.match_type = "exact" /\ model_lower = rule.model_pattern_input_lower
    \/ rule.match_type = "startswith"
         /\ startswith(model_lower, rule.model_pattern_input_lower)
    \/ rule.match_type = "contains"
         /\ str_in(rule.model_pattern_input_lower, model_lower)

\* a walk that does not stop at the first rule that applies: the last wins
RECURSIVE iterrows_last_wins(_, _, _)
iterrows_last_wins(rules, model_lower, model_name) ==
    IF rules = <<>> THEN model_name
    ELSE IF rule_applies(rules[Len(rules)], model_lower)
         THEN rules[Len(rules)].model_base_target
         ELSE iterrows_last_wins(SubSeq(rules, 1, Len(rules) - 1),
                                 model_lower, model_name)

\* main.py: for _, rule in rules_for_make.iterrows(): if ...: return target
\* and, after the loop, return model_name
RECURSIVE iterrows_main(_, _, _)
iterrows_main(rules, model_lower, model_name) ==
    IF rules = <<>> THEN model_name
    ELSE IF rule_applies(Head(rules), model_lower)
         THEN Head(rules).model_base_target
         ELSE iterrows_main(Tail(rules), model_lower, model_name)

\* a classifier whose fallback qualifies the model with its make
get_model_base_qualified(model_name, make_name, loaded) ==
    IF isna(model_name) \/ model_name = Desconocido THEN Return(Desconocido)
    ELSE IF isna(make_name) THEN Raise(<<>>)
    ELSE LET model_lower == strip(lower(model_name))
             make_lower == strip(lower(make_name))
             qualified == make_name \o <<" ">> \o model_name
         IN  IF loaded # None /\ loaded.rows # <<>>
             THEN Return(iterrows_main(rules_for_make(loaded.rows, make_lower),
                                       model_lower, qualified))
             ELSE Return(qualified)

\* main.py get_model_base
get_model_base(model_name, make_name, loaded) ==
    IF isna(model_name) \/ model_name = Desconocido THEN Return(Desconocido)
    ELSE IF isna(make_name) THEN Raise(<<>>)    \* make_name.lower() on a float
    ELSE LET model_lower == strip(lower(model_name))
             make_lower == strip(lower(make_name))
         IN  IF loaded # None /\ loaded.rows # <<>>
             THEN Return(iterrows_main(rules_for_make(loaded.rows, make_lower),
                                       model_lower, model_name))
             ELSE Return(model_name)

\* supabase_downloader_daily.py: the if / elif chain that sets match_found
match_found(rule, model_name_std_lower) ==
    LET pattern == rule.model_pattern_input_lower
        match_type == rule.match_type
    IN  IF match_type = "exact" /\ model_name_std_lower = pattern THEN TRUE
        ELSE IF match_type = "startswith"
                  /\ startswith(model_name_std_lower, pattern) THEN TRUE
        ELSE IF match_type = "contains" /\ str_in(pattern, model_name_std_lower)
             THEN TRUE
        ELSE FALSE

\* the loop with the fallback the specification words: title-cased, trimmed
RECURSIVE iterrows_daily_titled(_, _, _)
iterrows_daily_titled(rules, model_name_std_lower, model_name_std) ==
    IF rules = <<>> THEN title(strip(model_name_std))
    ELSE IF match_found(Head(rules), model_name_std_lower)
         THEN Head(rules).model_base_target
         ELSE iterrows_daily_titled(Tail(rules), model_name_std_lower,
                                    model_name_std)

\* supabase_downloader_daily.py: the loop over rules_for_make, and the
\* fallback return after it
RECURSIVE iterrows_daily(_, _, _)
iterrows_daily(rules, model_name_std_lower, model_name_std) ==
    IF rules = <<>> THEN model_name_std
    ELSE IF match_found(Head(rules), model_name_std_lower)
         THEN Head(rules).model_base_target
         ELSE iterrows_daily(Tail(rules), model_name_std_lower, model_name_std)

\* supabase_downloader_daily.py _get_model_base_heuristic.  It may load the
\* rules, so it also yields the cache it leaves behind.
get_model_base_heuristic(model_name_std, make_name_rule_match, loaded, file) ==
    IF isna(model_name_std)
    THEN [raised |-> TRUE, val |-> <<>>, loaded |-> loaded]  \* .lower() of the debug lines
    ELSE IF model_name_std = Desconocido \/ model_name_std = <<>>
    THEN [raised |-> FALSE, val |-> Desconocido, loaded |-> loaded]
    ELSE LET rules == IF loaded = None
                      THEN load_env_and_rules(loaded, file).val
                      ELSE loaded
             model_name_std_lower == strip(lower(model_name_std))
         IN  [raised |-> FALSE,
              val |-> IF rules # None /\ rules.rows # <<>>
                      THEN iterrows_daily(
                               rules_for_make(rules.rows, make_name_rule_match),
                               model_name_std_lower, model_name_std)
                      ELSE model_name_std,
              loaded |-> rules]

----------------------------------------------------------------------------
(* The classifier as a state machine                                       *)

\* the models and makes the classifier is called with
ModelInputs ==
    {NaN, <<>>, Desconocido, <<"a">>, <<"A", "b">>, <<"b", "a", " ">>, <<"b">>}

\* main.py passes the title-cased Make column, the daily downloader its
\* lower-cased Make_Rule_Match_Input column
MakeInputs(module) ==
    IF module = "main" THEN {<<"T">>, <<"H">>} ELSE {<<"t">>, <<"h">>}

NoCall ==
    [called |-> FALSE, again |-> FALSE, model |-> <<>>, make |-> <<>>,
     raised |-> FALSE, value |-> <<>>, rules |-> <<>>]

NoListings == <<>>
NoOutput == [done |-> FALSE, raised |-> FALSE, by |-> "none", rows |-> <<>>]
NoMetrics == [done |-> FALSE, raised |-> FALSE, rows |-> <<>>]
\* main_daily.py has not been started, fetch_all_data has not been called,
\* no scraping session runs
NotLaunched ==
    [pc |-> "idle", started |-> <<>>, finished |-> <<>>, log |-> <<>>,
     status |-> "none"]
NoFetch ==
    [pc |-> "idle", table |-> 0, inserted |-> 0, offset |-> 0,
     requests |-> <<>>, responses |-> <<>>, all_data |-> <<>>,
     raised |-> FALSE, ret |-> <<>>]
NoSession ==
    [pc |-> "idle", table |-> <<>>, sort_desc |-> FALSE, credentials |-> TRUE,
     handed |-> <<>>, sessions |-> <<>>]

NoLeads ==
    [done |-> FALSE, raised |-> FALSE, df_leads |-> <<>>, df_metrics |-> <<>>,
     rows |-> <<>>, df_leads_after |-> <<>>, df_metrics_after |-> <<>>,
     df_historic |-> <<>>, df_historic_after |-> <<>>]

InitRules ==
    /\ prog \in {"main", "daily"}
    \* the daily loader overwrites pattern_length: the column of the file
    \* never reaches it, and is left out of its files
    /\ IsCsvFile(csv, prog = "main")
    /\ LOADED_MODEL_RULES = None
    /\ loadRet = "not called"
    /\ ret = NoCall
    /\ df_raw = NoListings
    /\ out = NoOutput
    /\ metrics = NoMetrics
    /\ leads = NoLeads
    /\ orchestrator = NotLaunched
    /\ fetch = NoFetch
    /\ scraper = NoSession

\* load_rules() / _load_env_and_rules()
LoadRules ==
    LET r == IF prog = "main" THEN load_rules(LOADED_MODEL_RULES, csv)
             ELSE load_env_and_rules(LOADED_MODEL_RULES, csv)
    IN  /\ LOADED_MODEL_RULES' = IF r.raised THEN LOADED_MODEL_RULES ELSE r.val
        /\ loadRet' = IF r.raised THEN "raised" ELSE "returned"
        /\ UNCHANGED <<prog, csv, ret, df_raw, out, metrics, leads,
                       orchestrator, fetch, scraper>>

\* one call of the classifier of the running module
Call(model, make, again) ==
    IF prog = "main"
    THEN LET r == get_model_base(model, make, LOADED_MODEL_RULES)
         IN  /\ ret' = [called |-> TRUE, again |-> again, model |-> model,
                        make |-> make, raised |-> r.raised, value |-> r.val,
                        rules |-> LOADED_MODEL_RULES.rows]
             /\ UNCHANGED <<LOADED_MODEL_RULES, loadRet>>
    ELSE LET r == get_model_base_heuristic(model, make, LOADED_MODEL_RULES, csv)
         IN  /\ ret' = [called |-> TRUE, again |-> again, model |-> model,
                        make |-> make, raised |-> r.raised, value |-> r.val,
                        rules |-> r.loaded.rows]
             /\ LOADED_MODEL_RULES' = r.loaded
             /\ loadRet' = IF r.loaded # LOADED_MODEL_RULES THEN "returned"
                           ELSE loadRet

\* df.apply(lambda row: ...) calls the classifier on one row.  In main.py the
\* only caller, run_market_analysis, has called load_rules() before.
Classify ==
    /\ ret = NoCall
    /\ prog = "main" => loadRet # "not called"
    /\ \E model \in ModelInputs, make \in MakeInputs(prog) :
          Call(model, make, FALSE)
    /\ UNCHANGED <<prog, csv, df_raw, out, metrics, leads,
                   orchestrator, fetch, scraper>>

\* the value a call returned is classified again under the same make
ClassifyAgain ==
    /\ ret.called /\ ~ret.raised
    /\ Call(ret.value, ret.make, TRUE)
    /\ UNCHANGED <<prog, csv, df_raw, out, metrics, leads,
                   orchestrator, fetch, scraper>>

\* the result is stored and df.apply moves on to the next row
NextRow ==
    /\ ret.called
    /\ ret' = NoCall
    /\ UNCHANGED <<prog, csv, LOADED_MODEL_RULES, loadRet, df_raw, out,
                   metrics, leads,
                   orchestrator, fetch, scraper>>

NextRules == LoadRules \/ Classify \/ ClassifyAgain \/ NextRow

SpecRules == InitRules /\ [][NextRules]_vars

----------------------------------------------------------------------------
(* What the claims about the classifier speak of                           *)

\* p is a prefix / a contiguous part of s
IsPrefixOf(p, s) == \E n \in 0..Len(s) : SubSeq(s, 1, n) = p
IsPartOf(p, s) == \E i \in 1..(Len(s) + 1), j \in 0..Len(s) : SubSeq(s, i, j) = p

\* the match_type test of a rule on a normalised model
Succeeds(rule, m) ==
    CASE rule.match_type = "exact" -> m = rule.model_pattern_input_lower
      [] rule.match_type = "startswith" ->
            IsPrefixOf(rule.model_pattern_input_lower, m)
      [] rule.match_type = "contains" ->
            IsPartOf(rule.model_pattern_input_lower, m)
      [] OTHER -> FALSE

\* null, empty, or the sentinel word
IsSentinel(m) == m \in {NaN, <<>>, Desconocido}

\* the model and make of the last call as the rules see them
ModelKey == strip(lower(ret.model))
MakeKey == IF prog = "main" THEN strip(lower(ret.make)) ELSE ret.make

\* positions, in the table the call walked, of the rules of the call's make
\* whose test succeeds on its model
Hits ==
    {i \in 1..Len(ret.rules) :
        /\ ret.rules[i].make_rule_match = MakeKey
        /\ Succeeds(ret.rules[i], ModelKey)}

Least(S) == CHOOSE i \in S : \A j \in S : i <= j

\* a call on a proper model that came back
Classified == ret.called /\ ~ret.raised /\ ~IsSentinel(ret.model)

\* C1: a call on a proper model that some rule of its make matches returns
\* the target of the first such rule in table order, whatever follows it.
C1_FirstMatchWins ==
    (Classified /\ Hits # {}) =>
        ret.value = ret.rules[Least(Hits)].model_base_target

\* two rules of different match types match, and the earlier one is returned
C1_Witness ==
    /\ Classified
    /\ \E i, j \in Hits :
          /\ i < j
          /\ ret.rules[i].match_type # ret.rules[j].match_type
          /\ ret.value = ret.rules[i].model_base_target

\* C2: the value returned is the target of a matching rule of the make no
\* other matching rule of the make has a higher priority than.
C2_HigherPriorityWins ==
    (Classified /\ Hits # {}) =>
        \E i \in Hits :
            /\ ret.value = ret.rules[i].model_base_target
            /\ \A j \in Hits : ret.rules[j].priority <= ret.rules[i].priority

\* the rule of lower priority has the longer pattern and loses
C2_Witness ==
    /\ Classified
    /\ \E i, j \in Hits :
          /\ ret.rules[i].priority > ret.rules[j].priority
          /\ Len(ret.rules[i].model_pattern_input_lower)
                < Len(ret.rules[j].model_pattern_input_lower)
          /\ ret.value = ret.rules[i].model_base_target
          /\ ret.value # ret.rules[j].model_base_target

\* C3: of two matching rules of the make with equal priority, one pattern a
\* proper part of the other, longer one, the shorter never gives the result.
C3_LongerPatternWins ==
    Classified =>
        \A a, b \in Hits :
            (/\ ret.rules[a].priority = ret.rules[b].priority
             /\ IsPartOf(ret.rules[a].model_pattern_input_lower,
                         ret.rules[b].model_pattern_input_lower)
             /\ Len(ret.rules[a].model_pattern_input_lower)
                  < Len(ret.rules[b].model_pattern_input_lower))
            => ret.value # ret.rules[a].model_base_target

\* C4: no rule of another make gives the result of a call.
C4_MakeScoped ==
    (ret.called /\ ~ret.raised) =>
        \A i \in 1..Len(ret.rules) :
            ret.rules[i].make_rule_match # MakeKey
                => ret.value # ret.rules[i].model_base_target

\* a rule of another make would match the model; the model passes through
C4_Witness ==
    /\ Classified
    /\ Hits = {}
    /\ \E i \in 1..Len(ret.rules) :
          /\ ret.rules[i].make_rule_match # MakeKey
          /\ Succeeds(ret.rules[i], ModelKey)
    /\ ret.value = ret.model

\* C5 as claimed: a proper model no rule of the make matches comes back
\* title-cased and trimmed.
C5_TitleCasedFallback ==
    (ret.called /\ ~IsSentinel(ret.model) /\ Hits = {}) =>
        ~ret.raised /\ ret.value = title(strip(ret.model))

\* C5 as amended: a proper model no rule of the make matches comes back
\* exactly as it was passed, and the call does not raise.
C5_VerbatimFallback ==
    (ret.called /\ ~IsSentinel(ret.model) /\ Hits = {}) =>
        ~ret.raised /\ ret.value = ret.model /\ ret.value # <<>>

\* rules of the make are loaded, none matches, the model is not in title case
C5_Witness ==
    /\ Classified
    /\ Hits = {}
    /\ \E i \in 1..Len(ret.rules) : ret.rules[i].make_rule_match = MakeKey
    /\ ret.value = ret.model
    /\ ret.model # title(strip(ret.model))

\* C6: a call on a null, empty or sentinel model returns the sentinel and
\* does not raise.
C6_SentinelIn_SentinelOut ==
    (ret.called /\ IsSentinel(ret.model)) =>
        ~ret.raised /\ ret.value = Desconocido

\* the rule source is missing, unreadable, or (main.py) lacks the
\* pattern_length column load_rules sorts by
Unloadable ==
    \/ csv.kind \in {"missing", "garbled"}
    \/ prog = "main" /\ csv.kind = "table" /\ ~csv.has_length

\* C7: on such a source the loader returns, leaves no rule, and every call
\* on a proper model returns that model.
C7_DegradesToPassthrough ==
    Unloadable =>
        /\ loadRet # "raised"
        /\ LOADED_MODEL_RULES.rows = <<>>
        /\ (ret.called /\ ~IsSentinel(ret.model)) =>
              ~ret.raised /\ ret.value = ret.model

\* read_csv raised, the loader returned, a model then passed through
C7_Witness ==
    /\ csv.kind = "garbled"
    /\ loadRet = "returned"
    /\ LOADED_MODEL_RULES.rows = <<>>
    /\ Classified
    /\ ret.value = ret.model

\* C8: a value the classifier returned, classified again under the same
\* make, comes back unchanged when no rule of the make matches it.
C8_FallbackIdempotent ==
    (ret.called /\ ret.again /\ Hits = {}) =>
        ~ret.raised /\ ret.value = ret.model

\* a model passed through, and passed through again, past rules of its make
C8_Witness ==
    /\ ret.called /\ ret.again /\ ~ret.raised
    /\ ~IsSentinel(ret.model)
    /\ \E i \in 1..Len(ret.rules) : ret.rules[i].make_rule_match = MakeKey
    /\ Hits = {}
    /\ ret.value = ret.model

----------------------------------------------------------------------------
(* Part 2.  The listings                                                   *)

MaxRows == 3           \* rows of the listings handed to a cleaner

\* A listing as downloaded.  URL, DateTime, Price and Year cells are written
\* as the text of the cell, "NaN" for a missing one; Make, Model and
\* Model_Base are Python strings, NaN for a missing one.
GoodRow(url, date_time) ==
    [URL |-> url, DateTime |-> date_time, Make |-> <<"T">>, Model |-> <<"b">>,
     Model_Base |-> <<"X1">>, Price |-> "8", Year |-> "2015"]

\* two listings observed at two times; "d1z" writes the instant of "d1" in
\* another way
HealthyRows ==
    {GoodRow(u, d) : u \in {"u1", "u2"}, d \in {"d1", "d2"}}
        \cup {GoodRow("u1", "d1z")}

\* the observation ("u1", "d1") with one cell missing, unusable, or of a make
\* outside the target makes
DefectiveRows ==
    LET r == GoodRow("u1", "d1")
    IN  {[r EXCEPT !.URL = "NaN"], [r EXCEPT !.DateTime = "NaN"],
         [r EXCEPT !.DateTime = "bad"], [r EXCEPT !.Make = NaN],
         [r EXCEPT !.Make = <<"F">>], [r EXCEPT !.Model = NaN],
         [r EXCEPT !.Model_Base = NaN], [r EXCEPT !.Price = "x"],
         [r EXCEPT !.Price = "NaN"], [r EXCEPT !.Year = "x"]}

ListingRows == HealthyRows \cup DefectiveRows

\* a DataFrame keeps the index label of each row, and every column it was
\* given, through every step
WithIndex(df) ==
    [i \in 1..Len(df) |-> [idx |-> i, slug |-> NaN] @@ df[i]]

\* a numeric cell after pd.to_numeric(errors='coerce')
NullNumber == [isnull |-> TRUE, num |-> 0]
Number(n) == [isnull |-> FALSE, num |-> n]

to_numeric(cell) ==
    CASE cell = "8" -> Number(8)
      [] cell = "12" -> Number(12)
      [] cell = "2015" -> Number(2015)
      [] cell = "2008" -> Number(2008)
      [] OTHER -> NullNumber

\* pd.to_datetime(errors='coerce', utc=True): the instant a text denotes
to_datetime(cell) ==
    CASE cell = "d1" -> "t1"
      [] cell = "d1z" -> "t1"
      [] cell = "d2" -> "t2"
      [] cell = "d3" -> "t3"
      [] OTHER -> "NaT"

\* df.drop_duplicates(subset=['URL', 'DateTime'], keep='last')
drop_duplicates_keep_last(df) ==
    SelectSeq(df, LAMBDA r :
        \A j \in 1..Len(df) :
            df[j].idx > r.idx =>
                ~(df[j].URL = r.URL /\ df[j].DateTime = r.DateTime))

\* df.drop_duplicates(subset=['URL', 'DateTime']), keep='first'
drop_duplicates(df) ==
    SelectSeq(df, LAMBDA r :
        \A j \in 1..Len(df) :
            df[j].idx < r.idx =>
                ~(df[j].URL = r.URL /\ df[j].DateTime = r.DateTime))

\* for col in ['Price', 'Year']: df[col] = pd.to_numeric(df[col], errors='coerce')
coerce_numeric(df) ==
    [i \in 1..Len(df) |->
        [df[i] EXCEPT !.Price = to_numeric(@), !.Year = to_numeric(@)]]

\* df.dropna(subset=indispensable_cols)
dropna(df) ==
    SelectSeq(df, LAMBDA r :
        /\ r.URL # "NaN" /\ r.DateTime # "NaN"
        /\ ~isna(r.Make) /\ ~isna(r.Model) /\ ~isna(r.Model_Base)
        /\ ~r.Price.isnull /\ ~r.Year.isnull)

----------------------------------------------------------------------------
(* main.py process_data                                                    *)

\* the spellings of a make and the make each stands for
TARGET_MAKE_MAPPING ==
    (<<"t">> :> <<"t">>) @@ (<<"h">> :> <<"h">>)
        @@ (<<"v">> :> <<"v", "w">>) @@ (<<"v", "w">> :> <<"v", "w">>)

STANDARDIZED_TARGET_MAKES ==
    {TARGET_MAKE_MAPPING[k] : k \in DOMAIN TARGET_MAKE_MAPPING}

\* df['Make'].fillna("Desconocido").astype(str).str.strip().str.lower()
\*     .map(TARGET_MAKE_MAPPING).fillna(df['Make'].str.lower()).str.title()
standardize_make(make) ==
    LET key == strip(lower(IF isna(make) THEN Desconocido ELSE make))
        mapped == IF key \in DOMAIN TARGET_MAKE_MAPPING
                  THEN TARGET_MAKE_MAPPING[key] ELSE NaN
        filled == IF ~isna(mapped) THEN mapped
                  ELSE IF isna(make) THEN NaN ELSE lower(make)
    IN  IF isna(filled) THEN NaN ELSE title(filled)

\* df['Model'].fillna("Desconocido").astype(str).str.strip()
standardize_model(model) == IF isna(model) THEN Desconocido ELSE strip(model)

\* the characters [a-z0-9\s-] of the slug
IsSlugChar(c) ==
    c \in {"a", "b", "t", "h", "f", "v", "w", "x1", "x2", "x3", "x4",
           "desconocido", " ", "-"}

\* .str.replace(r'\s+', '-', regex=True)
RECURSIVE hyphenate(_)
hyphenate(s) ==
    IF s = <<>> THEN <<>>
    ELSE IF Head(s) = " " THEN <<"-">> \o hyphenate(lstrip(s))
    ELSE <<Head(s)>> \o hyphenate(Tail(s))

\* (df['Make'] + ' ' + df['Model_Base']).str.lower()
\*     .str.replace(r'[^a-z0-9\s-]', '', regex=True).str.replace(r'\s+', '-', ...)
make_slug(make, model_base) ==
    IF isna(make) \/ isna(model_base) THEN NaN
    ELSE hyphenate(SelectSeq(lower(make \o <<" ">> \o model_base), IsSlugChar))

\* df[df['Make'].str.lower().isin(STANDARDIZED_TARGET_MAKES)]
brand_filter(df) ==
    SelectSeq(df, LAMBDA r :
        ~isna(r.Make) /\ lower(r.Make) \in STANDARDIZED_TARGET_MAKES)

\* the size of the whole frame on every row: transform('size') with no grouping
appearances_of_frame(df) ==
    [i \in 1..Len(df) |-> df[i] @@ [Apariciones_URL_Hist |-> Len(df)]]

\* df_clean.groupby('URL')['URL'].transform('size')
appearances(df) ==
    [i \in 1..Len(df) |->
        df[i] @@ [Apariciones_URL_Hist |->
                     Cardinality({j \in 1..Len(df) : df[j].URL = df[i].URL})]]

\* process_data: it returns the cleaned frame, or the exception of a row's
\* get_model_base leaves it through df.apply
process_data(df, loaded) ==
    LET df_std ==
            [i \in 1..Len(df) |->
                [WithIndex(df)[i] EXCEPT !.Make = standardize_make(@),
                                         !.Model = standardize_model(@)]]
        calls ==
            [i \in 1..Len(df) |->
                get_model_base(df_std[i].Model, df_std[i].Make, loaded)]
        df_based ==
            [i \in 1..Len(df) |->
                [df_std[i] EXCEPT
                    !.Model_Base = calls[i].val,
                    !.slug = make_slug(df_std[i].Make, calls[i].val)]]
        df_filtered == brand_filter(df_based)
        df_clean == dropna(drop_duplicates(coerce_numeric(df_filtered)))
    IN  IF \E i \in 1..Len(df) : calls[i].raised THEN Raise(<<>>)
        ELSE Return(appearances(df_clean))

----------------------------------------------------------------------------
(* Core/market_analyzer.py MarketAnalyzer._clean_data                      *)

\* the characters [\w\s-] slugify_text keeps of a lower-cased text
IsWordOrSpace(c) == IsSlugChar(c) \/ c = "_"

\* re.sub(r'[\s-]+', '-', text)
RECURSIVE collapse(_)
collapse(s) ==
    IF s = <<>> THEN <<>>
    ELSE IF Head(s) \in {" ", "-"}
         THEN IF Tail(s) # <<>> /\ Head(Tail(s)) \in {" ", "-"}
              THEN collapse(Tail(s))
              ELSE <<"-">> \o collapse(Tail(s))
    ELSE <<Head(s)>> \o collapse(Tail(s))

\* re.sub(r'^-+|-+$', '', text)
trim_hyphens(s) ==
    LET body == IF s # <<>> /\ Head(s) = "-" THEN Tail(s) ELSE s
    IN  IF body # <<>> /\ body[Len(body)] = "-"
        THEN SubSeq(body, 1, Len(body) - 1) ELSE body

slugify_text(text) ==
    LET t == trim_hyphens(collapse(SelectSeq(strip(lower(text)), IsWordOrSpace)))
    IN  IF t = <<>> THEN <<"sin-slug">> ELSE t

\* _clean_data never raises on a frame that has the seven columns
clean_data(df) ==
    LET kept == dropna(coerce_numeric(drop_duplicates(WithIndex(df))))
        parsed ==
            [i \in 1..Len(kept) |-> [kept[i] EXCEPT !.DateTime = to_datetime(@)]]
        timed == SelectSeq(parsed, LAMBDA r : r.DateTime # "NaT")
    IN  IF kept = <<>> THEN Return(<<>>)
        ELSE Return([i \in 1..Len(timed) |->
                        [timed[i] EXCEPT !.slug = slugify_text(timed[i].Model_Base)]])

----------------------------------------------------------------------------
(* The cleaners as a state machine                                         *)

\* the rule file the cleaner of main.py runs with: one rule of the make "t"
CleanerRules ==
    TableFile(WithLength(<<[make_rule_match |-> <<"T">>,
                            model_pattern_input_lower |-> <<"b">>,
                            match_type |-> "exact", priority |-> 0,
                            pattern_length |-> 0]>>, <<1>>), TRUE)

\* run_market_analysis has called load_rules() and holds at least one
\* listing when it calls process_data; MarketAnalyzer.__init__ calls
\* _clean_data on a frame that is not empty.
InitClean ==
    /\ prog \in {"main", "market_analyzer"}
    /\ csv = IF prog = "main" THEN CleanerRules ELSE NoFile("missing")
    /\ LOADED_MODEL_RULES =
          IF prog = "main" THEN load_rules(None, CleanerRules).val ELSE None
    /\ loadRet = IF prog = "main" THEN "returned" ELSE "not called"
    /\ ret = NoCall
    /\ \E n \in 1..MaxRows : df_raw \in [1..n -> ListingRows]
    /\ out = NoOutput
    /\ metrics = NoMetrics
    /\ leads = NoLeads
    /\ orchestrator = NotLaunched
    /\ fetch = NoFetch
    /\ scraper = NoSession

ProcessData ==
    /\ prog = "main"
    /\ ~out.done
    /\ LET r == process_data(df_raw, LOADED_MODEL_RULES)
       IN  out' = [done |-> TRUE, raised |-> r.raised, by |-> "process_data",
                   rows |-> r.val]
    /\ UNCHANGED <<prog, csv, LOADED_MODEL_RULES, loadRet, ret, df_raw,
                   metrics, leads, orchestrator, fetch, scraper>>

CleanData ==
    /\ prog = "market_analyzer"
    /\ ~out.done
    /\ LET r == clean_data(df_raw)
       IN  out' = [done |-> TRUE, raised |-> r.raised, by |-> "_clean_data",
                   rows |-> r.val]
    /\ UNCHANGED <<prog, csv, LOADED_MODEL_RULES, loadRet, ret, df_raw,
                   metrics, leads, orchestrator, fetch, scraper>>

NextClean == ProcessData \/ CleanData

SpecClean == InitClean /\ [][NextClean]_vars

----------------------------------------------------------------------------
(* What the claims about the cleaners speak of                             *)

\* the cleaner ran and returned a frame
Cleaned == out.done /\ ~out.raised

\* the index labels of the rows of the cleaned frame
Kept == {out.rows[k].idx : k \in 1..Len(out.rows)}

\* Positions of df_raw whose rows reach the deduplication step: every row in
\* _clean_data; in process_data the rows of a target make, the brand filter
\* standing before the cleaning block.
Entering ==
    IF prog = "main"
    THEN {i \in 1..Len(df_raw) :
             lower(standardize_make(df_raw[i].Make)) \in STANDARDIZED_TARGET_MAKES}
    ELSE 1..Len(df_raw)

\* two rows are one observation: same url, same datetime text
SameObservation(i, j) ==
    /\ df_raw[i].URL = df_raw[j].URL
    /\ df_raw[i].DateTime = df_raw[j].DateTime

FirstOccurrence(i) ==
    /\ i \in Entering
    /\ \A j \in Entering : j < i => ~SameObservation(j, i)

\* the row lacks an indispensable field, or its price or year is no number
\* (Model_Base is an input column of _clean_data only)
Lacking(i) ==
    \/ df_raw[i].URL = "NaN" \/ df_raw[i].DateTime = "NaN"
    \/ isna(df_raw[i].Make) \/ isna(df_raw[i].Model)
    \/ prog = "market_analyzer" /\ isna(df_raw[i].Model_Base)
    \/ to_numeric(df_raw[i].Price).isnull \/ to_numeric(df_raw[i].Year).isnull

\* a valid row: nothing lacking, and a datetime that denotes an instant
Usable(i) == ~Lacking(i) /\ to_datetime(df_raw[i].DateTime) # "NaT"

\* C9: the cleaned frame holds no two rows of one (url, datetime)
\* observation; each row it holds is the first of its observation among the
\* rows that reached the deduplication, in input order; and every valid row
\* that is the first of its observation is held, so valid rows of one URL
\* and different datetimes are all held.
C9_OneRowPerObservation ==
    Cleaned =>
        /\ \A k, l \in 1..Len(out.rows) :
              k # l => ~SameObservation(out.rows[k].idx, out.rows[l].idx)
        /\ \A k \in 1..Len(out.rows) :
              /\ out.rows[k].URL = df_raw[out.rows[k].idx].URL
              /\ FirstOccurrence(out.rows[k].idx)
        /\ \A i \in Entering : (Usable(i) /\ FirstOccurrence(i)) => i \in Kept

\* three valid rows of one URL: the second repeats the observation of the
\* first and is gone, the third has another datetime and is held with the first
C9_Witness ==
    /\ Cleaned
    /\ \E i, j, k \in Entering :
          /\ Usable(i) /\ Usable(j) /\ Usable(k)
          /\ i < j /\ SameObservation(i, j)
          /\ df_raw[k].URL = df_raw[i].URL
          /\ df_raw[k].DateTime # df_raw[i].DateTime
          /\ i \in Kept /\ j \notin Kept /\ k \in Kept

\* a row of the cleaned frame has the seven fields, a numeric price and year
Complete(o) ==
    /\ o.URL # "NaN" /\ o.DateTime \notin {"NaN", "NaT"}
    /\ ~isna(o.Make) /\ ~isna(o.Model) /\ ~isna(o.Model_Base)
    /\ ~o.Price.isnull /\ ~o.Year.isnull

\* C10: the cleaner returns; every row it returns is complete; no row that
\* lacks a field or a number is returned; and no valid first row of an
\* observation is removed.
C10_IncompleteRowsDropped ==
    out.done =>
        /\ ~out.raised
        /\ \A k \in 1..Len(out.rows) : Complete(out.rows[k])
        /\ \A i \in 1..Len(df_raw) : Lacking(i) => i \notin Kept
        /\ \A i \in Entering : (Usable(i) /\ FirstOccurrence(i)) => i \in Kept

\* C11: every row process_data returns carries as Apariciones_URL_Hist the
\* number of distinct (url, datetime) pairs among the returned rows of its
\* URL, and two returned rows of one URL carry the same number.
C11_AppearanceCount ==
    (Cleaned /\ prog = "main") =>
        \A k \in 1..Len(out.rows) :
            /\ out.rows[k].Apariciones_URL_Hist =
                  Cardinality({<<out.rows[l].URL, out.rows[l].DateTime>> :
                                  l \in {m \in 1..Len(out.rows) :
                                            out.rows[m].URL = out.rows[k].URL}})
            /\ \A l \in 1..Len(out.rows) :
                  out.rows[l].URL = out.rows[k].URL =>
                      out.rows[l].Apariciones_URL_Hist
                          = out.rows[k].Apariciones_URL_Hist

\* one URL returned at two datetimes counts 2 on both rows, beside a repeated
\* observation that was removed and is not counted
C11_Witness ==
    /\ Cleaned /\ prog = "main"
    /\ Len(out.rows) < Len(df_raw)
    /\ \E k, l \in 1..Len(out.rows) :
          /\ k # l
          /\ out.rows[k].URL = out.rows[l].URL
          /\ out.rows[k].Apariciones_URL_Hist = 2
          /\ out.rows[l].Apariciones_URL_Hist = 2

----------------------------------------------------------------------------
(* Part 3.  Market metrics: main.py calculate_metrics and                  *)
(* Core/market_analyzer.py MarketAnalyzer._calculate_model_metrics         *)

\* The quotient num / den that a float division leaves; den = 0 is NaN.
Fraction(n, d) == [num |-> n, den |-> d]

\* the characters of the model in the order Python compares them
Collation ==
    <<" ", "-", "A", "B", "Desconocido", "F", "H", "T", "V", "W", "X1", "X2",
      "X3", "X4", "_", "a", "b", "desconocido", "f", "h", "sin-slug", "t", "v",
      "w", "x1", "x2", "x3", "x4">>

CharRank(c) == CHOOSE i \in 1..Len(Collation) : Collation[i] = c

\* Python's s < t on strings
RECURSIVE str_lt(_, _)
str_lt(s, t) ==
    IF t = <<>> THEN FALSE
    ELSE IF s = <<>> THEN TRUE
    ELSE IF Head(s) = Head(t) THEN str_lt(Tail(s), Tail(t))
    ELSE CharRank(Head(s)) < CharRank(Head(t))

\* the order groupby puts the keys (Make, Model_Base, slug) in
key_lt(k1, k2) ==
    \/ str_lt(k1[1], k2[1])
    \/ k1[1] = k2[1] /\ str_lt(k1[2], k2[2])
    \/ k1[1] = k2[1] /\ k1[2] = k2[2] /\ str_lt(k1[3], k2[3])

\* df.groupby(['Make', 'Model_Base', 'slug']): the keys, sorted
group_keys(df) ==
    {<<df[i].Make, df[i].Model_Base, df[i].slug>> : i \in 1..Len(df)}

RECURSIVE sorted_keys(_)
sorted_keys(K) ==
    IF K = {} THEN <<>>
    ELSE LET first == CHOOSE k \in K : \A j \in K \ {k} : key_lt(k, j)
         IN  <<first>> \o sorted_keys(K \ {first})

\* the rows of one group
group_rows(df, key) ==
    SelectSeq(df, LAMBDA r : <<r.Make, r.Model_Base, r.slug>> = key)

\* ('URL', 'count'): the rows of the group
URL_count(g) == Len(g)

\* every group counted as one listing
one_per_group(g) == 1

\* ('URL', 'nunique'): the distinct URLs of the group
URL_nunique(g) == Cardinality({g[i].URL : i \in 1..Len(g)})

RECURSIVE sum(_)
sum(ns) == IF ns = <<>> THEN 0 ELSE Head(ns) + sum(Tail(ns))

\* ('Price', 'mean') and ('Year', 'mean')
mean(ns) == Fraction(sum(ns), Len(ns))

RECURSIVE insert_number(_, _)
insert_number(ns, n) ==
    IF ns = <<>> THEN <<n>>
    ELSE IF n <= Head(ns) THEN <<n>> \o ns
    ELSE <<Head(ns)>> \o insert_number(Tail(ns), n)

RECURSIVE sorted_numbers(_)
sorted_numbers(ns) ==
    IF ns = <<>> THEN <<>>
    ELSE insert_number(sorted_numbers(Tail(ns)), Head(ns))

\* ('Price', 'median'): the middle value, or the mean of the two middle ones
median(ns) ==
    LET sorted == sorted_numbers(ns)
        half == Len(ns) \div 2
    IN  IF Len(ns) % 2 = 1 THEN Fraction(sorted[half + 1], 1)
        ELSE Fraction(sorted[half] + sorted[half + 1], 2)

Prices(g) == [i \in 1..Len(g) |-> g[i].Price.num]
Years(g) == [i \in 1..Len(g) |-> g[i].Year.num]

\* g.value_counts(): how many rows of the URLs g each URL has
value_counts(g, url) == Cardinality({i \in 1..Len(g) : g[i] = url})

\* a ratio of rows to URLs
rows_per_url(g, if_no_url) ==
    LET urls == {g[i] : i \in 1..Len(g)}
    IN  IF Cardinality(urls) > 0 THEN Fraction(Len(g), Cardinality(urls))
        ELSE if_no_url

\* (g.value_counts() == 1).sum() / g.nunique(), g the URL column of the rows
\* of one slug
calculate_fsr(g, if_no_url) ==
    LET urls == {g[i] : i \in 1..Len(g)}
        once == {u \in urls : value_counts(g, u) = 1}
    IN  IF Cardinality(urls) > 0
        THEN Fraction(Cardinality(once), Cardinality(urls))
        ELSE if_no_url

\* df.groupby('slug')['URL']: the URL column of the rows of one slug
slug_urls(df, slug) ==
    LET rows == SelectSeq(df, LAMBDA r : r.slug = slug)
    IN  [i \in 1..Len(rows) |-> rows[i].URL]

\* main.py calculate_metrics
calculate_metrics(df) ==
    LET keys == sorted_keys(group_keys(df))
    IN  IF df = <<>> THEN Return(<<>>)
        ELSE Return(
          [k \in 1..Len(keys) |->
             LET g == group_rows(df, keys[k])
             IN  [make_original_case |-> keys[k][1],
                  model_original_case |-> keys[k][2],
                  slug |-> keys[k][3],
                  unique_listings |-> URL_nunique(g),
                  median_price |-> median(Prices(g)),
                  mean_price |-> mean(Prices(g)),
                  mean_year |-> mean(Years(g)),
                  fast_selling_ratio |->
                      calculate_fsr(slug_urls(df, keys[k][3]), Fraction(0, 1))]])

\* ('Price', 'min') and ('Price', 'max')
min(ns) == sorted_numbers(ns)[1]
max(ns) == sorted_numbers(ns)[Len(ns)]

\* market_analyzer.py MarketAnalyzer._calculate_model_metrics
calculate_model_metrics(df) ==
    LET keys == sorted_keys(group_keys(df))
    IN  IF df = <<>> THEN Return(<<>>)
        ELSE Return(
          [k \in 1..Len(keys) |->
             LET g == group_rows(df, keys[k])
             IN  [make_original_case |-> keys[k][1],
                  model_original_case |-> keys[k][2],
                  slug |-> keys[k][3],
                  unique_listings |-> URL_nunique(g),
                  median_price |-> median(Prices(g)),
                  mean_price |-> mean(Prices(g)),
                  min_price |-> min(Prices(g)),
                  max_price |-> max(Prices(g)),
                  fast_selling_ratio |->
                      calculate_fsr(slug_urls(df, keys[k][3]), Fraction(0, 0))]])

\* MarketAnalyzer.__init__ with its guards on empty frames left out: groupby on
\* the frame without columns that _clean_data returns raises KeyError
MarketAnalyzer_unguarded(df) ==
    LET cleaned == clean_data(df)
        m == calculate_model_metrics(cleaned.val)
    IN  [raised |-> cleaned.val = <<>>, df_cleaned |-> cleaned.val,
         market_metrics_df |-> m.val]

\* MarketAnalyzer.__init__: self.df_cleaned and self.market_metrics_df
MarketAnalyzer(df) ==
    IF df = <<>>
    THEN [raised |-> FALSE, df_cleaned |-> <<>>, market_metrics_df |-> <<>>]
    ELSE LET cleaned == clean_data(df)
         IN  IF cleaned.val # <<>>
             THEN LET m == calculate_model_metrics(cleaned.val)
                  IN  [raised |-> cleaned.raised \/ m.raised,
                       df_cleaned |-> cleaned.val, market_metrics_df |-> m.val]
             ELSE [raised |-> cleaned.raised, df_cleaned |-> cleaned.val,
                   market_metrics_df |-> <<>>]

----------------------------------------------------------------------------
(* The aggregation as a state machine                                      *)

\* A listing of the make "T" whose model the rule file maps ("b"), or one of
\* two models that differ in case only and pass through; its price is 8 at
\* the first observation time and 12 at the second.  Model_Base is the
\* column MarketAnalyzer is handed.
MetricRow(url, date_time, model) ==
    [GoodRow(url, date_time) EXCEPT
        !.Model = model,
        !.Model_Base = IF model = <<"b">> THEN <<"X1">> ELSE model,
        !.Price = IF date_time = "d1" THEN "8" ELSE "12"]

MetricRows ==
    {MetricRow(u, d, m) : u \in {"u1", "u2"}, d \in {"d1", "d2"},
                          m \in {<<"b">>, <<"a">>, <<"A">>}}
        \cup {[GoodRow("u1", "d1") EXCEPT !.Price = "x"],
              [GoodRow("u1", "d1") EXCEPT !.DateTime = "bad"]}

\* run_market_analysis holds at least one listing when it calls
\* process_data; MarketAnalyzer is constructed on any frame, empty or not.
InitMetrics ==
    /\ prog \in {"main", "market_analyzer"}
    /\ csv = IF prog = "main" THEN CleanerRules ELSE NoFile("missing")
    /\ LOADED_MODEL_RULES =
          IF prog = "main" THEN load_rules(None, CleanerRules).val ELSE None
    /\ loadRet = IF prog = "main" THEN "returned" ELSE "not called"
    /\ ret = NoCall
    /\ \E n \in (IF prog = "main" THEN 1 ELSE 0)..MaxRows :
          df_raw \in [1..n -> MetricRows]
    /\ out = NoOutput
    /\ metrics = NoMetrics
    /\ leads = NoLeads
    /\ orchestrator = NotLaunched
    /\ fetch = NoFetch
    /\ scraper = NoSession

\* main.py run_market_analysis: df_metrics = calculate_metrics(df_processed),
\* reached when df_processed is not empty
CalculateMetrics ==
    /\ prog = "main"
    /\ out.done /\ ~out.raised /\ out.rows # <<>>
    /\ ~metrics.done
    /\ LET r == calculate_metrics(out.rows)
       IN  metrics' = [done |-> TRUE, raised |-> r.raised, rows |-> r.val]
    /\ UNCHANGED <<prog, csv, LOADED_MODEL_RULES, loadRet, ret, df_raw, out,
                   leads,
                   orchestrator, fetch, scraper>>

\* MarketAnalyzer(df, ...)
NewMarketAnalyzer ==
    /\ prog = "market_analyzer"
    /\ ~out.done
    /\ LET r == MarketAnalyzer(df_raw)
       IN  /\ out' = [done |-> TRUE, raised |-> r.raised, by |-> "_clean_data",
                      rows |-> r.df_cleaned]
           /\ metrics' = [done |-> TRUE, raised |-> r.raised,
                          rows |-> r.market_metrics_df]
    /\ UNCHANGED <<prog, csv, LOADED_MODEL_RULES, loadRet, ret, df_raw, leads,
                   orchestrator, fetch, scraper>>

NextMetrics == ProcessData \/ CalculateMetrics \/ NewMarketAnalyzer

SpecMetrics == InitMetrics /\ [][NextMetrics]_vars

----------------------------------------------------------------------------
(* What the claims about the metrics speak of                              *)

\* the aggregation ran and returned a table
Aggregated == metrics.done /\ ~metrics.raised

\* the positions of the cleaned rows that belong to the group of metric row k
GroupOf(k) ==
    {i \in 1..Len(out.rows) :
        /\ out.rows[i].Make = metrics.rows[k].make_original_case
        /\ out.rows[i].Model_Base = metrics.rows[k].model_original_case
        /\ out.rows[i].slug = metrics.rows[k].slug}

\* the URLs of a set of cleaned rows, and those with exactly one row in it
UrlsOf(rows) == {out.rows[i].URL : i \in rows}
SeenOnce(rows) ==
    {u \in UrlsOf(rows) :
        Cardinality({i \in rows : out.rows[i].URL = u}) = 1}

\* C13: every group of the cleaned rows has a metric row, and the
\* unique_listings of a metric row is the number of distinct URLs of its
\* group, not the number of its rows.
C13_UniqueListingsCountsUrls ==
    Aggregated =>
        /\ \A i \in 1..Len(out.rows) :
              \E k \in 1..Len(metrics.rows) : i \in GroupOf(k)
        /\ \A k \in 1..Len(metrics.rows) :
              metrics.rows[k].unique_listings = Cardinality(UrlsOf(GroupOf(k)))

\* a group holds one URL observed at two datetimes and counts one listing
C13_Witness ==
    /\ Aggregated
    /\ \E k \in 1..Len(metrics.rows) :
          /\ Cardinality(GroupOf(k)) = 2
          /\ metrics.rows[k].unique_listings = 1

\* C14: the fast_selling_ratio of a metric row is the number of URLs with
\* exactly one row in its group over the number of distinct URLs of its group.
C14_FastSellingRatioOfGroup ==
    Aggregated =>
        \A k \in 1..Len(metrics.rows) :
            /\ metrics.rows[k].fast_selling_ratio.den > 0
            /\ metrics.rows[k].fast_selling_ratio.num
                    * Cardinality(UrlsOf(GroupOf(k)))
                  = Cardinality(SeenOnce(GroupOf(k)))
                    * metrics.rows[k].fast_selling_ratio.den

RECURSIVE SumOfUniqueListings(_)
SumOfUniqueListings(k) ==
    IF k = 0 THEN 0
    ELSE metrics.rows[k].unique_listings + SumOfUniqueListings(k - 1)

\* some URL of the cleaned rows has rows in two groups
UrlInTwoGroups ==
    \E i, j \in 1..Len(out.rows) :
        /\ out.rows[i].URL = out.rows[j].URL
        /\ <<out.rows[i].Make, out.rows[i].Model_Base, out.rows[i].slug>>
              # <<out.rows[j].Make, out.rows[j].Model_Base, out.rows[j].slug>>

C16_OneRowPerSlug ==
    Aggregated =>
        /\ \A i \in 1..Len(out.rows) :
              \E k \in 1..Len(metrics.rows) :
                  metrics.rows[k].slug = out.rows[i].slug
        /\ \A k, l \in 1..Len(metrics.rows) :
              k # l => metrics.rows[k].slug # metrics.rows[l].slug

\* C17: the fast_selling_ratio of a metric row whose group has a URL lies
\* between 0 and 1.
C17_RatioWithinUnitInterval ==
    Aggregated =>
        \A k \in 1..Len(metrics.rows) :
            metrics.rows[k].unique_listings >= 1 =>
                /\ metrics.rows[k].fast_selling_ratio.den > 0
                /\ 0 <= metrics.rows[k].fast_selling_ratio.num
                /\ metrics.rows[k].fast_selling_ratio.num
                      <= metrics.rows[k].fast_selling_ratio.den

\* one table holds a ratio of 0, and a ratio strictly between 0 and 1
C17_Witness ==
    /\ Aggregated
    /\ \E k \in 1..Len(metrics.rows) :
          /\ metrics.rows[k].fast_selling_ratio.num > 0
          /\ metrics.rows[k].fast_selling_ratio.num
                < metrics.rows[k].fast_selling_ratio.den

----------------------------------------------------------------------------
(* Part 4.  The leads: main.py run_market_analysis and                      *)
(* Core/lead_filter.py filter_attractive_leads                              *)

SessionHours == 48     \* timedelta(hours=48)
OneDayHours == 24      \* timedelta(days=1)
MinYear == 2010        \* leads_last_day['Year'] >= 2010

\* the hours between the first instant and an instant
hours(t) ==
    CASE t = "t1" -> 0
      [] t = "t2" -> 30
      [] t = "t3" -> 60

\* pd.to_datetime(errors='coerce', utc=True) of a column that may hold
\* instants already: an instant stays what it is
to_datetime_column(cell) ==
    IF cell \in {"t1", "t2", "t3", "NaT"} THEN cell ELSE to_datetime(cell)

\* df['DateTime'].dropna().max(): NaT when no row has an instant
max_timestamp(df) ==
    LET ts == {df[i].DateTime : i \in 1..Len(df)} \ {"NaT"}
    IN  IF ts = {} THEN "NaT"
        ELSE CHOOSE t \in ts : \A u \in ts : hours(u) <= hours(t)

\* df[df['DateTime'] >= max_timestamp - window]: a comparison with NaT is False
since(df, window) ==
    LET latest == max_timestamp(df)
    IN  SelectSeq(df, LAMBDA r :
            /\ latest # "NaT" /\ r.DateTime # "NaT"
            /\ hours(r.DateTime) >= hours(latest) - window)

\* main.py lines 177-179: df_leads_latest_session
latest_session(df_processed) ==
    since([i \in 1..Len(df_processed) |->
              [df_processed[i] EXCEPT !.DateTime = to_datetime(@)]],
          SessionHours)

\* main.py lines 175 and 225: dashboard_df with its columns renamed
dashboard_df(df_metrics) ==
    [k \in 1..Len(df_metrics) |->
        [Make |-> df_metrics[k].make_original_case,
         Model |-> df_metrics[k].model_original_case,
         slug |-> df_metrics[k].slug,
         unique_listings |-> df_metrics[k].unique_listings,
         median_price |-> df_metrics[k].median_price,
         mean_price |-> df_metrics[k].mean_price,
         mean_year |-> df_metrics[k].mean_year,
         fast_selling_ratio |-> df_metrics[k].fast_selling_ratio]]

\* leads_last_day: lead_filter.py lines 25-29
leads_last_day(df_leads) ==
    LET parsed ==
            [i \in 1..Len(df_leads) |->
                [df_leads[i] EXCEPT !.DateTime = to_datetime_column(@)]]
    IN  since(SelectSeq(parsed, LAMBDA r : r.DateTime # "NaT"), OneDayHours)

\* no filter on the year
year_filter_none(df) == df

\* the comparison of the year filter turned round
year_filter_upto(df, min_year) ==
    SelectSeq(df, LAMBDA r : r.Year.num <= min_year)

\* leads_last_day[leads_last_day['Year'] >= min_year], the literal 2010 of
\* the source written as a parameter
year_filter_from(df, min_year) ==
    SelectSeq(df, LAMBDA r : r.Year.num >= min_year)

\* leads_last_day[leads_last_day['Year'] >= 2010]
year_filter(df) == year_filter_from(df, MinYear)

\* .astype(str).str.lower() of a cell of the column unico_dueno
str_lower(cell) ==
    CASE cell \in {"True", "TRUE", "true"} -> "true"
      [] cell \in {"False", "FALSE", "false"} -> "false"
      [] OTHER -> "none"

\* leads_filtered_year[... .astype(str).str.lower() == 'true']
unico_dueno_filter(df) ==
    SelectSeq(df, LAMBDA r : str_lower(r.unico_dueno) = "true")

\* a join that pairs every lead with every metric row
merge_cross(left, right) ==
    [n \in 1..(Len(left) * Len(right)) |->
        LET l == left[((n - 1) \div Len(right)) + 1]
            m == right[((n - 1) % Len(right)) + 1]
        IN  l @@ [mean_price |-> m.mean_price, mean_year |-> m.mean_year]]

\* pd.merge(leads, metrics_for_join, on=['Make', 'Model'], how='left'): one
\* row for each metric row a lead matches, one row with null metrics for a
\* lead that matches none
RECURSIVE merge(_, _)
merge(left, right) ==
    IF left = <<>> THEN <<>>
    ELSE LET l == Head(left)
             hits == SelectSeq(right, LAMBDA m :
                         m.Make = l.Make /\ m.Model = l.Model)
             joined ==
                 IF hits = <<>>
                 THEN <<l @@ [mean_price |-> Fraction(0, 0),
                              mean_year |-> Fraction(0, 0)]>>
                 ELSE [k \in 1..Len(hits) |->
                          l @@ [mean_price |-> hits[k].mean_price,
                                mean_year |-> hits[k].mean_year]]
         IN  joined \o merge(Tail(left), right)

\* Price < mean_price: a comparison with a null mean is False
lt(price, f) == f.den # 0 /\ price.num * f.den < f.num

\* mean_price - Price
frac_sub_reversed(a, b) ==
    IF a.den = 0 \/ b.den = 0 THEN Fraction(0, 0)
    ELSE Fraction(b.num * a.den - a.num * b.den, a.den * b.den)

\* a - b of two floats
frac_sub(a, b) ==
    IF a.den = 0 \/ b.den = 0 THEN Fraction(0, 0)
    ELSE Fraction(a.num * b.den - b.num * a.den, a.den * b.den)

\* a / b of two floats, the denominator kept positive; a / 0 is kept as a
\* quotient of denominator 0
frac_div(a, b) ==
    IF a.den = 0 \/ b.den = 0 THEN Fraction(0, 0)
    ELSE IF b.num < 0 THEN Fraction(0 - a.num * b.den, a.den * (0 - b.num))
    ELSE Fraction(a.num * b.den, a.den * b.num)

\* (Price - mean_price) / mean_price
Oportunidad_Precio(r) ==
    frac_div(frac_sub(Fraction(r.Price.num, 1), r.mean_price), r.mean_price)

\* Core/lead_filter.py filter_attractive_leads: no step of it raises on a
\* frame that has the columns DateTime, Year, unico_dueno, Make, Model, Price
\* lead_filter.py lines 40-66: what filter_attractive_leads does with the
\* leads its year filter left
attractive_leads_of(leads_filtered_year, df_metrics) ==
    LET leads_unico_dueno == unico_dueno_filter(leads_filtered_year)
        leads_with_metrics == merge(leads_unico_dueno, df_metrics)
        attractive_leads ==
            SelectSeq(leads_with_metrics, LAMBDA r : lt(r.Price, r.mean_price))
    IN  [i \in 1..Len(attractive_leads) |->
            attractive_leads[i]
                @@ [Oportunidad_Precio |->
                        Oportunidad_Precio(attractive_leads[i]),
                    Kilometers |-> "N/A"]]

filter_attractive_leads(df_leads, df_metrics) ==
    IF df_leads = <<>> \/ df_metrics = <<>> THEN Return(<<>>)
    ELSE Return(attractive_leads_of(year_filter(leads_last_day(df_leads)),
                                    df_metrics))

\* The frame the caller handed over as df_leads, after the call: lines 25-26
\* assign its DateTime column and drop its rows in place (inplace=True), once
\* past the guard of line 21.
df_leads_after_call(df_leads, df_metrics) ==
    IF df_leads = <<>> \/ df_metrics = <<>> THEN df_leads
    ELSE SelectSeq([i \in 1..Len(df_leads) |->
                       [df_leads[i] EXCEPT !.DateTime = to_datetime_column(@)]],
                   LAMBDA r : r.DateTime # "NaT")

\* The frame the caller handed over as df_metrics, after the call: line 47
\* works on a copy of four of its columns.
df_metrics_after_call(df_leads, df_metrics) == df_metrics

\* pd.to_numeric(errors='coerce') of a column that holds numbers already
to_numeric_column(cell) ==
    IF cell.isnull THEN NullNumber ELSE Number(cell.num)

\* Core/charts_module.py generar_graficos_individuales, lines 38-39: the
\* frame the caller handed over as df_historic, after the call.  The Year
\* and Price columns are assigned in place.
df_historic_after_call(df_historic) ==
    [i \in 1..Len(df_historic) |->
        [df_historic[i] EXCEPT !.Year = to_numeric_column(@),
                               !.Price = to_numeric_column(@)]]

\* filter_attractive_leads with the literal 2010 of its year filter written
\* as a parameter
filter_attractive_leads_from(df_leads, df_metrics, min_year) ==
    IF df_leads = <<>> \/ df_metrics = <<>> THEN <<>>
    ELSE attractive_leads_of(
             year_filter_from(leads_last_day(df_leads), min_year), df_metrics)

----------------------------------------------------------------------------
(* The stages as a state machine                                           *)

\* A listing of the make "T" with the column unico_dueno.  The rule file
\* maps the model "b" to "X1"; the model "a" passes through.
LeadRow(url, date_time, model, price, year, unico_dueno) ==
    [GoodRow(url, date_time) EXCEPT
        !.Model = model,
        !.Model_Base = IF model = <<"b">> THEN <<"X1">> ELSE model,
        !.Price = price, !.Year = year]
      @@ [unico_dueno |-> unico_dueno]

\* a cheap and a dear listing of each model; listings that are old, not of
\* one owner, of one owner written in capitals, observed 30 hours earlier or
\* later; a listing whose date and one whose price cannot be read
LeadRows ==
    {LeadRow("u1", "d2", <<"a">>, "8", "2015", "True"),
     LeadRow("u2", "d2", <<"a">>, "12", "2015", "True"),
     LeadRow("u1", "d2", <<"b">>, "8", "2015", "True"),
     LeadRow("u3", "d2", <<"b">>, "12", "2015", "True"),
     LeadRow("u3", "d2", <<"a">>, "8", "2008", "True"),
     LeadRow("u3", "d2", <<"a">>, "8", "2015", "False"),
     LeadRow("u3", "d2", <<"a">>, "8", "2015", "TRUE"),
     LeadRow("u3", "d1", <<"a">>, "8", "2015", "True"),
     LeadRow("u3", "d3", <<"a">>, "12", "2015", "True"),
     LeadRow("u3", "bad", <<"a">>, "8", "2015", "True")}

\* a metrics table a caller of filter_attractive_leads holds: the one of a
\* cheap and a dear listing of the model "a"
MetricsGiven ==
    LET df == process_data(<<LeadRow("u1", "d2", <<"a">>, "8", "2015", "True"),
                             LeadRow("u2", "d2", <<"a">>, "12", "2015", "True")>>,
                           load_rules(None, CleanerRules).val).val
    IN  dashboard_df(calculate_metrics(df).val)

\* run_market_analysis holds at least one listing when it calls
\* process_data; MarketAnalyzer and filter_attractive_leads are called on
\* any frame, empty or not.
InitLeads ==
    /\ prog \in {"main", "market_analyzer", "lead_filter"}
    /\ csv = IF prog = "market_analyzer" THEN NoFile("missing") ELSE CleanerRules
    /\ LOADED_MODEL_RULES =
          IF prog = "market_analyzer" THEN None
          ELSE load_rules(None, CleanerRules).val
    /\ loadRet = IF prog = "market_analyzer" THEN "not called" ELSE "returned"
    /\ ret = NoCall
    /\ \E n \in (IF prog = "main" THEN 1 ELSE 0)..MaxRows :
          df_raw \in [1..n -> LeadRows]
    /\ out = NoOutput
    /\ metrics = NoMetrics
    /\ leads = NoLeads
    /\ orchestrator = NotLaunched
    /\ fetch = NoFetch
    /\ scraper = NoSession

\* main.py run_market_analysis from dashboard_df = df_metrics.copy() to the
\* call of filter_attractive_leads, reached when df_metrics is not empty
FilterAttractiveLeads ==
    /\ prog = "main"
    /\ metrics.done /\ ~metrics.raised /\ metrics.rows # <<>>
    /\ ~leads.done
    /\ LET df_processed ==
               [i \in 1..Len(out.rows) |->
                   [out.rows[i] EXCEPT !.DateTime = to_datetime(@)]]
           df_leads_latest_session == latest_session(out.rows)
           dashboard == dashboard_df(metrics.rows)
           r == filter_attractive_leads(df_leads_latest_session, dashboard)
       IN  leads' = [done |-> TRUE, raised |-> r.raised,
                     df_leads |-> df_leads_latest_session,
                     df_metrics |-> dashboard, rows |-> r.val,
                     df_leads_after |->
                         df_leads_after_call(df_leads_latest_session, dashboard),
                     df_metrics_after |->
                         df_metrics_after_call(df_leads_latest_session,
                                               dashboard),
                     df_historic |-> df_processed,
                     df_historic_after |-> df_historic_after_call(df_processed)]
    /\ UNCHANGED <<prog, csv, LOADED_MODEL_RULES, loadRet, ret, df_raw, out,
                   metrics,
                   orchestrator, fetch, scraper>>

\* filter_attractive_leads(df_leads, df_metrics) on a cleaned frame and a
\* metrics table, either of which may be empty
CallFilter ==
    /\ prog = "lead_filter"
    /\ ~leads.done
    /\ \E df_metrics \in {<<>>, MetricsGiven} :
          LET df_leads == process_data(df_raw, LOADED_MODEL_RULES).val
              r == filter_attractive_leads(df_leads, df_metrics)
          IN  leads' = [done |-> TRUE, raised |-> r.raised,
                        df_leads |-> df_leads, df_metrics |-> df_metrics,
                        rows |-> r.val,
                        df_leads_after |->
                            df_leads_after_call(df_leads, df_metrics),
                        df_metrics_after |->
                            df_metrics_after_call(df_leads, df_metrics),
                        df_historic |-> <<>>, df_historic_after |-> <<>>]
    /\ UNCHANGED <<prog, csv, LOADED_MODEL_RULES, loadRet, ret, df_raw, out,
                   metrics,
                   orchestrator, fetch, scraper>>

NextLeads ==
    \/ ProcessData
    \/ CalculateMetrics
    \/ FilterAttractiveLeads
    \/ CallFilter
    \/ NewMarketAnalyzer

SpecLeads == InitLeads /\ [][NextLeads]_vars

----------------------------------------------------------------------------
(* What the claims about the stages and the leads speak of                 *)

\* filter_attractive_leads was called and returned
Filtered == leads.done /\ ~leads.raised

\* the cell of unico_dueno reads 'true', whatever its case
ReadsTrue(cell) == cell \in {"true", "True", "TRUE"}

\* the price is below the mean price of the metric row
Below(price, m) ==
    m.mean_price.den > 0 /\ price.num * m.mean_price.den < m.mean_price.num

\* the metric rows handed to the filter that carry the lead's Make and Model
JoinedTo(l) ==
    {k \in 1..Len(leads.df_metrics) :
        /\ leads.df_metrics[k].Make = l.Make
        /\ leads.df_metrics[k].Model = l.Model}

\* one step of the filter leaves no lead: none observed at an instant, none
\* of 2010 or later, none of one owner, none below the mean price of a
\* metric row of its Make and Model
StepEliminatesAll ==
    LET L == {leads.df_leads[i] : i \in 1..Len(leads.df_leads)}
    IN  \/ \A l \in L : to_datetime_column(l.DateTime) = "NaT"
        \/ \A l \in L : l.Year.num < MinYear
        \/ \A l \in L : ~ReadsTrue(l.unico_dueno)
        \/ \A l \in L : \A k \in JoinedTo(l) :
                            ~Below(l.Price, leads.df_metrics[k])

\* C12: each core stage returns an empty result and raises no error when its
\* input is empty or when one of its filtering steps eliminates every row.
\* MarketAnalyzer on an empty frame, or on a frame none of whose rows is
\* valid, holds an empty cleaned frame and an empty metrics table;
\* filter_attractive_leads on an empty frame, on an empty metrics table, or
\* on leads that one of its steps eliminates, returns an empty frame.
C12_EmptyInEmptyOut ==
    /\ (prog = "market_analyzer" /\ out.done) =>
          /\ ~out.raised /\ ~metrics.raised
          /\ (\A i \in 1..Len(df_raw) : ~Usable(i)) => out.rows = <<>>
          /\ out.rows = <<>> => metrics.rows = <<>>
    /\ leads.done =>
          /\ ~leads.raised
          /\ (leads.df_leads = <<>> \/ leads.df_metrics = <<>>
                \/ StepEliminatesAll) => leads.rows = <<>>

\* MarketAnalyzer was constructed on a frame all of whose rows its cleaning
\* dropped
C12_Witness ==
    /\ prog = "market_analyzer" /\ out.done /\ df_raw # <<>>
    /\ out.rows = <<>> /\ metrics.rows = <<>>

\* C18: every lead filter_attractive_leads returns has a year of 2010 or
\* later, a single-owner flag that reads 'true' whatever its case, and a
\* price strictly below the mean price of the metric row it was joined to.
C18_LeadsPassEveryFilter ==
    Filtered =>
        \A i \in 1..Len(leads.rows) :
            LET l == leads.rows[i]
            IN  /\ l.Year.num >= MinYear
                /\ ReadsTrue(l.unico_dueno)
                /\ \E k \in JoinedTo(l) :
                      /\ l.mean_price = leads.df_metrics[k].mean_price
                      /\ Below(l.Price, leads.df_metrics[k])

\* run_market_analysis got a lead whose flag is written in capitals
C18_Witness ==
    /\ prog = "main" /\ Filtered
    /\ \E i \in 1..Len(leads.rows) : leads.rows[i].unico_dueno = "TRUE"

\* the listing was observed within a day of the latest observation of the
\* frame handed to the filter
InLastDay(r) ==
    LET latest == max_timestamp(leads.df_leads)
    IN  /\ r.DateTime # "NaT"
        /\ hours(latest) - hours(r.DateTime) <= OneDayHours

\* C19: the leads are joined to the metrics on (Make, Model_Base): every
\* listing of the last day of the latest session that is of 2010 or later,
\* of one owner, and priced below the mean price of the metric row of its
\* own (Make, Model_Base) group is among the leads, whatever its model
\* text.
C19_JoinedOnModelBase ==
    (prog = "main" /\ Filtered) =>
        \A i \in 1..Len(leads.df_leads) :
            LET r == leads.df_leads[i]
            IN  (/\ InLastDay(r)
                 /\ r.Year.num >= MinYear
                 /\ ReadsTrue(r.unico_dueno)
                 /\ \E k \in 1..Len(metrics.rows) :
                       /\ metrics.rows[k].make_original_case = r.Make
                       /\ metrics.rows[k].model_original_case = r.Model_Base
                       /\ Below(r.Price, metrics.rows[k]))
                => \E j \in 1..Len(leads.rows) : leads.rows[j].idx = r.idx

\* C20: the opportunity ratio of a lead is (price - mean_price) / mean_price
\* of the metric row it was joined to, and it is never above 0.
C20_OportunidadPrecio ==
    Filtered =>
        \A i \in 1..Len(leads.rows) :
            LET l == leads.rows[i]
                o == l.Oportunidad_Precio
            IN  /\ o.den > 0 /\ o.num <= 0
                /\ \E k \in JoinedTo(l) :
                      LET m == leads.df_metrics[k].mean_price
                      IN  o.num * m.num = (l.Price.num * m.den - m.num) * o.den

\* run_market_analysis got a lead priced below the mean of its group
C20_Witness ==
    /\ prog = "main" /\ Filtered
    /\ \E i \in 1..Len(leads.rows) : leads.rows[i].Oportunidad_Precio.num < 0

\* the thresholds of the year filter the leads are compared under
YearThresholds == {2008, MinYear, 2015, 2016}

\* the leads the filter returns from the frames it was handed when its year
\* threshold is min_year
LeadsFrom(min_year) ==
    LET rows == filter_attractive_leads_from(leads.df_leads, leads.df_metrics,
                                             min_year)
    IN  {rows[i] : i \in 1..Len(rows)}

LeadCountFrom(min_year) ==
    Len(filter_attractive_leads_from(leads.df_leads, leads.df_metrics, min_year))

\* C21: for the same listings and metrics, the leads returned under a higher
\* minimum year are a subset of the leads returned under a lower one, and
\* are no more; the leads returned by the code are those of the year 2010.
C21_YearThresholdMonotone ==
    Filtered =>
        LET rows == [y \in YearThresholds |->
                        filter_attractive_leads_from(leads.df_leads,
                                                     leads.df_metrics, y)]
            from == [y \in YearThresholds |->
                        {rows[y][i] : i \in 1..Len(rows[y])}]
        IN  /\ from[MinYear] = {leads.rows[i] : i \in 1..Len(leads.rows)}
            /\ \A y1, y2 \in YearThresholds :
                  y1 <= y2 =>
                      /\ from[y2] \subseteq from[y1]
                      /\ Len(rows[y2]) <= Len(rows[y1])

\* run_market_analysis got a lead; a lower threshold would have let in
\* another, and a higher one lets in none
C21_Witness ==
    /\ prog = "main" /\ Filtered
    /\ leads.rows # <<>>
    /\ LeadCountFrom(2008) > Len(leads.rows)
    /\ LeadCountFrom(2016) = 0

----------------------------------------------------------------------------
(* Part 5.  The rule table over repeated loads                             *)

\* the rule files found at RULES_CSV_PATH over the life of a process: none,
\* an unreadable one, one rule, two rules, and (main.py reads the column)
\* one without its pattern_length column
ReloadFiles(module) ==
    LET one == <<[make_rule_match |-> <<"T">>,
                  model_pattern_input_lower |-> <<"b">>,
                  match_type |-> "exact", priority |-> 0,
                  pattern_length |-> 0]>>
        two == <<[make_rule_match |-> <<"T">>,
                  model_pattern_input_lower |-> <<"a">>,
                  match_type |-> "contains", priority |-> 0,
                  pattern_length |-> 0],
                 [make_rule_match |-> <<"T">>,
                  model_pattern_input_lower |-> <<"A", "b", " ">>,
                  match_type |-> "startswith", priority |-> 1,
                  pattern_length |-> 0]>>
    IN  {NoFile("missing"), NoFile("garbled"), TableFile(two, FALSE)}
          \cup (IF module = "main"
                THEN {TableFile(WithLength(one, <<1>>), TRUE),
                      TableFile(WithLength(two, <<1, 2>>), TRUE)}
                ELSE {TableFile(one, FALSE)})

InitReload ==
    /\ prog \in {"main", "daily"}
    /\ csv \in ReloadFiles(prog)
    /\ LOADED_MODEL_RULES = None
    /\ loadRet = "not called"
    /\ ret = NoCall
    /\ df_raw = NoListings
    /\ out = NoOutput
    /\ metrics = NoMetrics
    /\ leads = NoLeads
    /\ orchestrator = NotLaunched
    /\ fetch = NoFetch
    /\ scraper = NoSession

\* load_rules() / _load_env_and_rules() called again, the file at
\* RULES_CSV_PATH being by then any of the files
Reload ==
    /\ loadRet # "not called"
    /\ \E file \in ReloadFiles(prog) :
          LET r == IF prog = "main" THEN load_rules(LOADED_MODEL_RULES, file)
                   ELSE load_env_and_rules(LOADED_MODEL_RULES, file)
          IN  /\ csv' = file
              /\ LOADED_MODEL_RULES' =
                    IF r.raised THEN LOADED_MODEL_RULES ELSE r.val
              /\ loadRet' = IF r.raised THEN "raised" ELSE "returned"
    /\ UNCHANGED <<prog, ret, df_raw, out, metrics, leads,
                   orchestrator, fetch, scraper>>

NextReload == LoadRules \/ Reload \/ Classify \/ ClassifyAgain \/ NextRow

SpecReload == InitReload /\ [][NextReload]_vars

\* C22: once the rule table is loaded, no load call and no classify call
\* changes its rows or their order.
C22_RulesImmutableOnceLoaded ==
    [][LOADED_MODEL_RULES # None =>
          LOADED_MODEL_RULES' = LOADED_MODEL_RULES]_vars

\* a table of rules is held, a later load call found another file at the
\* path and left the table as it was, and the classifier has walked it
C22_Witness ==
    /\ LOADED_MODEL_RULES # None
    /\ LOADED_MODEL_RULES.rows # <<>>
    /\ csv.kind = "table"
    /\ LOADED_MODEL_RULES #
          (IF prog = "main" THEN load_rules(None, csv)
           ELSE load_env_and_rules(None, csv)).val
    /\ ret.called /\ ~ret.raised
    /\ ret.rules = LOADED_MODEL_RULES.rows

\* C23: after filter_attractive_leads and the chart generation have run, the
\* frames their caller handed them hold the rows and values they held
\* before the call.
C23_StagesDoNotMutate ==
    leads.done =>
        /\ leads.df_leads_after = leads.df_leads
        /\ leads.df_metrics_after = leads.df_metrics
        /\ leads.df_historic_after = leads.df_historic

----------------------------------------------------------------------------
(* Part 6.  main_daily.py: the daily orchestrator                          *)

\* scripts_to_run, by script name
scripts_to_run ==
    <<"2.DIARIO.daily_urls_extraction.VCLI.py",
      "4.DIARIO.SEMANAL.SCRAPER.NEOAUTO.SUPABASE.PARA.CRON.py",
      "5.DIARIO.SEMANAL.Procesador_txt.a.json.DEEPSEEK_VCLI.py",
      "6.json_a_supabase.DEEP.SEEK.CRON.VCLI.py",
      "main.py",
      "gmail_sender.py">>

\* how subprocess.Popen(vpn_path) ends
PopenOutcomes == {"launched", "FileNotFoundError", "Exception"}

\* how subprocess.run(command, check=True, ...) ends: the child exits with
\* status 0, its stderr empty or not; it exits with another status; or the
\* call itself raises
RunOutcomes ==
    [kind : {"completed"}, returncode : {0}, stderr : BOOLEAN]
      \cup [kind : {"CalledProcessError"}, returncode : {1, 2}, stderr : {TRUE}]
      \cup [kind : {"Exception"}, returncode : {-1}, stderr : {FALSE}]

\* launch_vpn_and_wait(): True once the launcher was started and the wait is over
launch_vpn_and_wait(popen) == popen = "launched"

\* a run_script that reports success whatever the child did
run_script_always_true(outcome) == TRUE

\* run_script(...): True when the child exited with status 0
run_script(outcome) == outcome.kind = "completed"

\* what run_script writes to the log when the call has ended
run_script_log(script_name, outcome) ==
    IF outcome.kind = "completed"
    THEN (IF outcome.stderr THEN <<[level |-> "WARNING", script |-> script_name]>>
          ELSE <<>>)
           \o <<[level |-> "INFO", script |-> script_name]>>
    ELSE <<[level |-> "ERROR", script |-> script_name]>>

\* python main_daily.py
InitDaily ==
    /\ prog = "main_daily"
    /\ csv = NoFile("missing")
    /\ LOADED_MODEL_RULES = None
    /\ loadRet = "not called"
    /\ ret = NoCall
    /\ df_raw = NoListings
    /\ out = NoOutput
    /\ metrics = NoMetrics
    /\ leads = NoLeads
    /\ orchestrator = [NotLaunched EXCEPT !.pc = "launch_vpn_and_wait"]
    /\ fetch = NoFetch
    /\ scraper = NoSession

\* main(): if not launch_vpn_and_wait(): sys.exit(1)
LaunchVpn ==
    /\ orchestrator.pc = "launch_vpn_and_wait"
    /\ \E popen \in PopenOutcomes :
          orchestrator' =
              IF launch_vpn_and_wait(popen)
              THEN [orchestrator EXCEPT
                       !.pc = "for",
                       !.log = Append(@, [level |-> "INFO", script |-> "vpn"])]
              ELSE [orchestrator EXCEPT
                       !.pc = "exited", !.status = 1,
                       !.log = @ \o <<[level |-> "ERROR", script |-> "vpn"],
                                      [level |-> "CRITICAL", script |-> "vpn"]>>]
    /\ UNCHANGED <<prog, csv, LOADED_MODEL_RULES, loadRet, ret, df_raw, out,
                   metrics, leads, fetch, scraper>>

\* the for loop takes the next script and run_script starts the child; when
\* no script is left, main() returns and the process exits with status 0
StartScript ==
    /\ orchestrator.pc = "for"
    /\ orchestrator' =
          IF Len(orchestrator.started) < Len(scripts_to_run)
          THEN [orchestrator EXCEPT
                   !.pc = "subprocess.run",
                   !.started =
                       Append(@, scripts_to_run[Len(orchestrator.started) + 1])]
          ELSE [orchestrator EXCEPT !.pc = "exited", !.status = 0]
    /\ UNCHANGED <<prog, csv, LOADED_MODEL_RULES, loadRet, ret, df_raw, out,
                   metrics, leads, fetch, scraper>>

\* subprocess.run returns or raises, run_script returns, and main() goes on
\* with the loop or calls sys.exit(1)
ScriptEnds ==
    /\ orchestrator.pc = "subprocess.run"
    /\ \E outcome \in RunOutcomes :
          LET script_name == orchestrator.started[Len(orchestrator.started)]
              logged == run_script_log(script_name, outcome)
          IN  orchestrator' =
                  IF run_script(outcome)
                  THEN [orchestrator EXCEPT
                           !.pc = "for",
                           !.finished = Append(@, outcome),
                           !.log = @ \o logged]
                  ELSE [orchestrator EXCEPT
                           !.pc = "exited", !.status = 1,
                           !.finished = Append(@, outcome),
                           !.log = @ \o logged
                                     \o <<[level |-> "CRITICAL",
                                           script |-> script_name]>>]
    /\ UNCHANGED <<prog, csv, LOADED_MODEL_RULES, loadRet, ret, df_raw, out,
                   metrics, leads, fetch, scraper>>

NextDaily == LaunchVpn \/ StartScript \/ ScriptEnds

SpecDaily == InitDaily /\ [][NextDaily]_vars

\* the child of a script ended other than by exiting with status 0
Failed(outcome) == outcome.kind # "completed" \/ outcome.returncode # 0

\* the VPN launcher could not be started
VpnFailed ==
    \E i \in 1..Len(orchestrator.log) :
        orchestrator.log[i] = [level |-> "ERROR", script |-> "vpn"]

\* C24: the scripts started are the first ones of the list, in its order;
\* one child runs at a time and a script is started only when every script
\* before it has ended with status 0; once the VPN launch or a script has
\* failed no script is started any more and the process has exited with
\* status 1.
C24_ScriptsInOrderStopAtFailure ==
    /\ Len(orchestrator.started) <= Len(scripts_to_run)
    /\ orchestrator.started
          = SubSeq(scripts_to_run, 1, Len(orchestrator.started))
    /\ Len(orchestrator.finished) \in
          {Len(orchestrator.started), Len(orchestrator.started) - 1}
    /\ (orchestrator.pc = "subprocess.run")
          <=> (Len(orchestrator.finished) = Len(orchestrator.started) - 1)
    /\ \A i \in 1..Len(orchestrator.finished) :
          i < Len(orchestrator.started) => ~Failed(orchestrator.finished[i])
    /\ VpnFailed =>
          /\ orchestrator.started = <<>>
          /\ orchestrator.pc = "exited" /\ orchestrator.status = 1
    /\ \A i \in 1..Len(orchestrator.finished) :
          Failed(orchestrator.finished[i]) =>
              /\ Len(orchestrator.started) = i
              /\ orchestrator.pc = "exited" /\ orchestrator.status = 1

\* the third script failed after two that ended well, and the process has
\* exited
C24_Witness ==
    /\ Len(orchestrator.started) = 3
    /\ Len(orchestrator.finished) = 3
    /\ ~Failed(orchestrator.finished[1])
    /\ ~Failed(orchestrator.finished[2])
    /\ Failed(orchestrator.finished[3])
    /\ orchestrator.pc = "exited" /\ orchestrator.status = 1

----------------------------------------------------------------------------
(* The datetimes of the cleaned listings                                   *)

\* the cell of the DateTime column denotes an instant
IsInstant(cell) == to_datetime_column(cell) # "NaT"

\* C25: no listing whose datetime denotes no instant is in the cleaned
\* frame, and none counts in a metric: the unique_listings of every metric
\* row is the number of URLs its group has among the listings whose
\* datetime denotes an instant.
C25_UnparseableDatetimeDropped ==
    /\ Cleaned => \A i \in 1..Len(out.rows) : IsInstant(out.rows[i].DateTime)
    /\ Aggregated =>
          \A k \in 1..Len(metrics.rows) :
              metrics.rows[k].unique_listings =
                  Cardinality(UrlsOf({i \in GroupOf(k) :
                                         IsInstant(out.rows[i].DateTime)}))

\* C26: the filter has no time window of its own: every listing handed to
\* it that was observed at an instant, is of 2010 or later, of one owner,
\* and priced below the mean price of a metric row of its Make and Model is
\* among the leads, whenever it was observed.
C26_NoWindowOfItsOwn ==
    Filtered =>
        \A i \in 1..Len(leads.df_leads) :
            LET r == leads.df_leads[i]
            IN  (/\ IsInstant(r.DateTime)
                 /\ r.Year.num >= MinYear
                 /\ ReadsTrue(r.unico_dueno)
                 /\ \E k \in JoinedTo(r) : Below(r.Price, leads.df_metrics[k]))
                => \E j \in 1..Len(leads.rows) : leads.rows[j].idx = r.idx

----------------------------------------------------------------------------
(* The standardisation of Make in the two modules                          *)

\* supabase_downloader_daily.py: the values read as an unknown make.  Of
\* '', 'nan', 'none', 'null', 'desconocido', 'otros', 'otros modelos' the
\* two the makes below can spell.
empty_like_values_check == {<<>>, <<"desconocido">>}

\* supabase_downloader_daily.py _standardize_data_and_get_base_model, step 1:
\* the column the rules are matched on and the final Make column
standardize_make_daily(make) ==
    LET input == strip(lower(IF isna(make) THEN Desconocido ELSE make))
        Make_Rule_Match_Input ==
            IF input \in DOMAIN TARGET_MAKE_MAPPING
            THEN TARGET_MAKE_MAPPING[input] ELSE input
        Make == title(Make_Rule_Match_Input)
    IN  [Make |-> IF lower(Make) \in empty_like_values_check
                  THEN Desconocido ELSE Make,
         Make_Rule_Match_Input |-> Make_Rule_Match_Input]

\* main.py get_model_base: make_lower, the make the rules are selected by;
\* a null Make has none, the call raises
make_lower_of(make_name) ==
    IF isna(make_name) THEN NaN ELSE strip(lower(make_name))

\* the Make column a module writes for a raw make, and the make it selects
\* the rules by
canonical_make(module, make) ==
    IF module = "main"
    THEN [Make |-> standardize_make(make),
          Make_Rule_Match_Input |-> make_lower_of(standardize_make(make))]
    ELSE standardize_make_daily(make)

\* the spellings of Make the listings come with
RawMakes ==
    {NaN, Desconocido, <<>>, <<"t">>, <<" ", "T">>, <<"v">>, <<"V", "W">>,
     <<"V", "w", " ">>, <<"F">>, <<" ", "f">>, <<"f", " ", "b">>}

InitMakes ==
    /\ prog \in {"main", "daily"}
    /\ csv = NoFile("missing")
    /\ LOADED_MODEL_RULES = None
    /\ loadRet = "not called"
    /\ ret = NoCall
    /\ df_raw \in [1..2 -> [Make : RawMakes]]
    /\ out = NoOutput
    /\ metrics = NoMetrics
    /\ leads = NoLeads
    /\ orchestrator = NotLaunched
    /\ fetch = NoFetch
    /\ scraper = NoSession

\* the Make column of the frame is standardised
StandardizeMake ==
    /\ ~out.done
    /\ out' = [done |-> TRUE, raised |-> FALSE, by |-> "standardize_make",
               rows |-> [i \in 1..Len(df_raw) |->
                            [raw |-> df_raw[i].Make]
                                @@ canonical_make(prog, df_raw[i].Make)]]
    /\ UNCHANGED <<prog, csv, LOADED_MODEL_RULES, loadRet, ret, df_raw,
                   metrics, leads, orchestrator, fetch, scraper>>

\* the frame a run wrote is standardised by the next run
StandardizeMakeAgain ==
    /\ out.done /\ out.by = "standardize_make"
    /\ out' = [out EXCEPT
                 !.by = "standardize_make again",
                 !.rows = [i \in 1..Len(out.rows) |->
                              [raw |-> out.rows[i].Make]
                                  @@ canonical_make(prog, out.rows[i].Make)]]
    /\ UNCHANGED <<prog, csv, LOADED_MODEL_RULES, loadRet, ret, df_raw,
                   metrics, leads, orchestrator, fetch, scraper>>

NextMakes == StandardizeMake \/ StandardizeMakeAgain

SpecMakes == InitMakes /\ [][NextMakes]_vars

\* two spellings are the same after lowercasing and trimming, or the
\* mapping sends both to one make
SameMake(a, b) ==
    /\ ~isna(a) /\ ~isna(b)
    /\ \/ strip(lower(a)) = strip(lower(b))
       \/ /\ strip(lower(a)) \in DOMAIN TARGET_MAKE_MAPPING
          /\ strip(lower(b)) \in DOMAIN TARGET_MAKE_MAPPING
          /\ TARGET_MAKE_MAPPING[strip(lower(a))]
                = TARGET_MAKE_MAPPING[strip(lower(b))]

Standardized == out.done /\ out.by = "standardize_make"
StandardizedAgain == out.done /\ out.by = "standardize_make again"

\* two rows whose raw makes are the same make have the same Make
SameMakeSameCanonical ==
    Standardized =>
        \A i, j \in 1..Len(out.rows) :
            SameMake(out.rows[i].raw, out.rows[j].raw)
                => out.rows[i].Make = out.rows[j].Make

\* standardising a standardised Make leaves it as it is
MakeIdempotent ==
    StandardizedAgain =>
        \A i \in 1..Len(out.rows) : out.rows[i].Make = out.rows[i].raw

\* the rules are selected by the Make of the row, lower-cased and trimmed
LookedUpUnderCanonical ==
    out.done =>
        \A i \in 1..Len(out.rows) :
            ~isna(out.rows[i].Make)
                => out.rows[i].Make_Rule_Match_Input
                      = strip(lower(out.rows[i].Make))

\* C27: raw makes that are equal after lowercasing and trimming, or that
\* the mapping sends to one make, get the same Make; standardising a Make
\* already standardised returns it unchanged; and the rules are looked up
\* under the standardised Make.
C27_MakeCanonicalization ==
    SameMakeSameCanonical /\ MakeIdempotent /\ LookedUpUnderCanonical

----------------------------------------------------------------------------
(* main.py fetch_all_data                                                  *)

\* limit = 1000
limit == 1000

\* how many rows other programs insert while a download runs, at most
MaxInserts == 1

\* The table holds the ids 1..table; .order('id', desc=True) lists them from
\* the greatest down.  A run of rows is written by its first and last id.
Run(first, last) == [first |-> first, last |-> last]

\* the rows a run holds
run_len(run) == run.first - run.last + 1

\* .range(offset, offset + limit - 1).execute().data on a table of the ids
\* 1..table: the rows at the positions offset..offset+limit-1 of the
\* listing, as far as there are any; <<>> is the empty list
response_data(table, from, to) ==
    IF from >= table THEN <<>>
    ELSE <<Run(table - from, IF to >= table THEN 1 ELSE table - to)>>

\* len(response.data), len(all_data)
RECURSIVE len(_)
len(data) == IF data = <<>> THEN 0 ELSE run_len(Head(data)) + len(Tail(data))

\* an except branch that returns what the earlier pages brought
on_exception_partial(all_data) == all_data

\* except Exception: return pd.DataFrame()
on_exception(all_data) == <<>>

\* return pd.DataFrame(all_data) if all_data else pd.DataFrame()
on_completion(all_data) == IF all_data # <<>> THEN all_data ELSE <<>>

\* the sizes of the table when the download starts
TableSizes == {0, 1, 999, 1000, 1001, 1999, 2000, 2001, 2500, 3000}

InitFetch ==
    /\ prog = "main"
    /\ csv = NoFile("missing")
    /\ LOADED_MODEL_RULES = None
    /\ loadRet = "not called"
    /\ ret = NoCall
    /\ df_raw = NoListings
    /\ out = NoOutput
    /\ metrics = NoMetrics
    /\ leads = NoLeads
    /\ orchestrator = NotLaunched
    /\ \E n \in TableSizes :
          fetch = [NoFetch EXCEPT !.pc = "while", !.table = n]
    /\ scraper = NoSession

\* one turn of the while loop whose request returns a response
RequestPage ==
    /\ fetch.pc = "while"
    /\ LET from == fetch.offset
           to == fetch.offset + limit - 1
           data == response_data(fetch.table, from, to)
           all_data == IF data = <<>> THEN fetch.all_data
                       ELSE fetch.all_data \o data
           break == data = <<>> \/ len(data) < limit
       IN  fetch' = [fetch EXCEPT
                        !.requests = Append(@, [from |-> from, to |-> to]),
                        !.responses = Append(@, data),
                        !.all_data = all_data,
                        !.offset = IF break THEN @ ELSE @ + limit,
                        !.pc = IF break THEN "returned" ELSE "while",
                        !.ret = IF break THEN on_completion(all_data) ELSE @]
    /\ UNCHANGED <<prog, csv, LOADED_MODEL_RULES, loadRet, ret, df_raw, out,
                   metrics, leads, orchestrator, scraper>>

\* one turn of the while loop whose request raises
RequestRaises ==
    /\ fetch.pc = "while"
    /\ fetch' = [fetch EXCEPT
                    !.requests = Append(@, [from |-> fetch.offset,
                                            to |-> fetch.offset + limit - 1]),
                    !.raised = TRUE,
                    !.pc = "returned",
                    !.ret = on_exception(fetch.all_data)]
    /\ UNCHANGED <<prog, csv, LOADED_MODEL_RULES, loadRet, ret, df_raw, out,
                   metrics, leads, orchestrator, scraper>>

\* another program inserts a row into the table between two requests
InsertRow ==
    /\ fetch.pc = "while"
    /\ fetch.inserted < MaxInserts
    /\ fetch' = [fetch EXCEPT !.table = @ + 1, !.inserted = @ + 1]
    /\ UNCHANGED <<prog, csv, LOADED_MODEL_RULES, loadRet, ret, df_raw, out,
                   metrics, leads, orchestrator, scraper>>

NextFetch == RequestPage \/ RequestRaises \/ InsertRow

SpecFetch == InitFetch /\ [][NextFetch]_vars

\* execute() is a blocking call: it returns a response or raises
SpecFetchLive == SpecFetch /\ WF_vars(RequestPage \/ RequestRaises)

\* the rows of all the responses, in the order they came
RECURSIVE concat(_)
concat(pages) == IF pages = <<>> THEN <<>> ELSE Head(pages) \o concat(Tail(pages))

FetchReturned == fetch.pc = "returned"

\* the k-th request asks for the k-th thousand of rows
ConsecutivePages ==
    \A k \in 1..Len(fetch.requests) :
        fetch.requests[k] = [from |-> (k - 1) * limit, to |-> k * limit - 1]

\* every response before the last was a full page, and a download that
\* returned without an error ended on an empty or a short page
StopsAtFirstShortPage ==
    /\ \A k \in 1..(Len(fetch.responses) - 1) :
          len(fetch.responses[k]) = limit
    /\ FetchReturned /\ ~fetch.raised =>
          /\ fetch.responses # <<>>
          /\ len(fetch.responses[Len(fetch.responses)]) < limit

\* what is returned: every row of every response, or nothing after an error
AllOrNothing ==
    FetchReturned =>
        IF fetch.raised THEN fetch.ret = <<>>
        ELSE fetch.ret = concat(fetch.responses)

\* C28: fetch_all_data requests consecutive pages of 1000 rows, stops at the
\* first empty or short page and returns every row fetched; when a request
\* fails it returns nothing, whatever the pages before brought; and it
\* returns in the end.
C28_AllOrNothingAndTerminates ==
    /\ [](ConsecutivePages /\ StopsAtFirstShortPage /\ AllOrNothing)
    /\ <>FetchReturned

\* a request failed after a full page had been fetched
C28_Witness ==
    /\ FetchReturned /\ fetch.raised
    /\ fetch.all_data # <<>>
    /\ Len(fetch.requests) > 1

----------------------------------------------------------------------------
(* extractores/4.DIARIO.SEMANAL.SCRAPER.NEOAUTO.SUPABASE.PARA.CRON.py      *)

\* the URLs of the table: two of the site and one of another
SiteUrl1 == <<"https://neoauto.com/", "1">>
SiteUrl2 == <<"https://neoauto.com/", "2">>
OtherUrl == <<"https://other/", "1">>
TableUrls == <<SiteUrl1, OtherUrl, SiteUrl2>>

\* response.data of a call that brought no URL, and the None get_next_url
\* returns for it
NoUrl == <<>>

\* the sessions that may run on the table at the same time
Sessions == {"s1", "s2"}

\* the positions of the rows of the table not yet processed
unprocessed(table) == {i \in 1..Len(table) : ~table[i].procesado}

\* the function get_unprocessed_count of the database
get_unprocessed_count(table) == Cardinality(unprocessed(table))

\* the row the function get_next_unprocessed_url chooses: the first, or with
\* p_sort_desc the last, of the rows not yet processed
next_unprocessed(table, p_sort_desc) ==
    IF p_sort_desc
    THEN CHOOSE i \in unprocessed(table) : \A j \in unprocessed(table) : j <= i
    ELSE CHOOSE i \in unprocessed(table) : \A j \in unprocessed(table) : i <= j

\* a function that returns the row and leaves it unprocessed
leave_unprocessed(table, i) == table

\* the row is marked as processed
mark_processed(table, i) == [table EXCEPT ![i].procesado = TRUE]

\* the function get_next_unprocessed_url of the database, in one
\* transaction: the URL it returns, none when none is left, and the table
\* it leaves
get_next_unprocessed_url(table, p_sort_desc) ==
    IF unprocessed(table) = {} THEN [data |-> NoUrl, table |-> table]
    ELSE LET i == next_unprocessed(table, p_sort_desc)
         IN  [data |-> table[i].url, table |-> mark_processed(table, i)]

\* url.startswith('https://neoauto.com/')
is_neoauto(url) == startswith(url, <<"https://neoauto.com/">>)

\* a loop that asks again when get_next_url brought nothing
after_next_url_again(url) ==
    IF url = NoUrl THEN "count"
    ELSE IF ~is_neoauto(url) THEN "count"
    ELSE "scrape"

\* where the loop goes with what get_next_url returned: break on nothing,
\* continue on a URL that is not of the site, else the try block
after_next_url(url) ==
    IF url = NoUrl THEN "done"
    ELSE IF ~is_neoauto(url) THEN "count"
    ELSE "scrape"

\* a session before run_scraping_session is called
NotRunning ==
    [pc |-> "idle", url |-> NoUrl, remaining_count |-> 0, processed_count |-> 0,
     iterations |-> 0, scraped |-> <<>>]

\* the ways a call of the database or of advanced_scraping ends
RpcOutcomes == {"data", "no data", "raises before", "raises after"}
ScrapeOutcomes == {"data", "None", "raises"}

InitScraper ==
    /\ prog = "scraper"
    /\ csv = NoFile("missing")
    /\ LOADED_MODEL_RULES = None
    /\ loadRet = "not called"
    /\ ret = NoCall
    /\ df_raw = NoListings
    /\ out = NoOutput
    /\ metrics = NoMetrics
    /\ leads = NoLeads
    /\ orchestrator = NotLaunched
    /\ fetch = NoFetch
    /\ \E done \in [1..Len(TableUrls) -> BOOLEAN], desc, env \in BOOLEAN :
          scraper = [pc |-> "running",
                     table |-> [i \in 1..Len(TableUrls) |->
                                   [url |-> TableUrls[i], procesado |-> done[i]]],
                     sort_desc |-> desc,
                     credentials |-> env,
                     handed |-> <<>>,
                     sessions |-> [s \in Sessions |-> NotRunning]]

\* run_scraping_session is called
StartSession(s) ==
    /\ scraper.pc = "running"
    /\ scraper.sessions[s].pc = "idle"
    /\ scraper' = [scraper EXCEPT !.sessions[s].pc = "count"]
    /\ UNCHANGED <<prog, csv, LOADED_MODEL_RULES, loadRet, ret, df_raw, out,
                   metrics, leads, orchestrator, fetch>>

\* the head of the loop: get_unprocessed_url_count and the test of its result
CountUrls(s) ==
    /\ scraper.pc = "running"
    /\ scraper.sessions[s].pc = "count"
    /\ \E outcome \in RpcOutcomes :
          LET remaining_count ==
                  IF outcome = "data" THEN get_unprocessed_count(scraper.table)
                  ELSE 0
          IN  scraper' = [scraper EXCEPT
                  !.sessions[s].remaining_count =
                      IF scraper.credentials THEN remaining_count ELSE @,
                  !.sessions[s].pc =
                      IF ~scraper.credentials THEN "raised"
                      ELSE IF remaining_count = 0 THEN "done"
                      ELSE "next"]
    /\ UNCHANGED <<prog, csv, LOADED_MODEL_RULES, loadRet, ret, df_raw, out,
                   metrics, leads, orchestrator, fetch>>

\* get_next_url and the two tests of its result
NextUrl(s) ==
    /\ scraper.pc = "running"
    /\ scraper.sessions[s].pc = "next"
    /\ \E outcome \in RpcOutcomes :
          LET response == get_next_unprocessed_url(scraper.table,
                                                   scraper.sort_desc)
              table == IF outcome \in {"data", "raises after"}
                       THEN response.table ELSE scraper.table
              url == IF outcome = "data" THEN response.data ELSE NoUrl
          IN  scraper' = [scraper EXCEPT
                  !.table = table,
                  !.handed = IF url # NoUrl
                             THEN Append(@, [session |-> s, url |-> url])
                             ELSE @,
                  !.sessions[s].url = url,
                  !.sessions[s].iterations =
                      IF url # NoUrl /\ ~is_neoauto(url) THEN @ + 1 ELSE @,
                  !.sessions[s].pc = after_next_url(url)]
    /\ UNCHANGED <<prog, csv, LOADED_MODEL_RULES, loadRet, ret, df_raw, out,
                   metrics, leads, orchestrator, fetch>>

\* the try block: advanced_scraping, the file of its data, the sleep
Scrape(s) ==
    /\ scraper.pc = "running"
    /\ scraper.sessions[s].pc = "scrape"
    /\ \E outcome \in ScrapeOutcomes :
          scraper' = [scraper EXCEPT
              !.sessions[s].scraped =
                  Append(@, [url |-> scraper.sessions[s].url,
                             outcome |-> outcome]),
              !.sessions[s].processed_count =
                  IF outcome = "data" THEN @ + 1 ELSE @,
              !.sessions[s].iterations = @ + 1,
              !.sessions[s].pc = "count"]
    /\ UNCHANGED <<prog, csv, LOADED_MODEL_RULES, loadRet, ret, df_raw, out,
                   metrics, leads, orchestrator, fetch>>

SessionStep(s) == CountUrls(s) \/ NextUrl(s) \/ Scrape(s)

NextScraper == \E s \in Sessions : StartSession(s) \/ SessionStep(s)

SpecScraper == InitScraper /\ [][NextScraper]_vars

\* a call of the database or of the browser returns or raises, and a
\* session that runs goes on to its next statement
SpecScraperLive == SpecScraper /\ \A s \in Sessions : WF_vars(SessionStep(s))

\* the URLs handed out to a session so far
HandedTo(s) == {i \in 1..Len(scraper.handed) : scraper.handed[i].session = s}

SessionRuns(s) == scraper.sessions[s].pc \in {"count", "next", "scrape"}
SessionEnded(s) == scraper.sessions[s].pc \in {"done", "raised"}

\* no URL is handed out twice, to one session or to two
NeverHandedOutAgain ==
    \A i, j \in 1..Len(scraper.handed) :
        i # j => scraper.handed[i].url # scraper.handed[j].url

\* a URL handed out is marked as processed
ProcessedWhenHandedOut ==
    \A i \in 1..Len(scraper.handed) :
        \A k \in 1..Len(scraper.table) :
            scraper.table[k].url = scraper.handed[i].url
                => scraper.table[k].procesado

\* no URL is scraped twice, by one session or by two
NeverScrapedTwice ==
    \A s, t \in Sessions :
        \A i \in 1..Len(scraper.sessions[s].scraped) :
            \A j \in 1..Len(scraper.sessions[t].scraped) :
                (s # t \/ i # j)
                    => scraper.sessions[s].scraped[i].url
                          # scraper.sessions[t].scraped[j].url

\* every turn of the loop that did not end the session took one URL
OneUrlPerIteration ==
    \A s \in Sessions :
        Cardinality(HandedTo(s)) =
            scraper.sessions[s].iterations
                + (IF scraper.sessions[s].pc = "scrape" THEN 1 ELSE 0)

----------------------------------------------------------------------------
(* The join of the leads with the metrics                                  *)

\* the listings handed to the filter that are among the leads it returns
LeadsOf(idx) == {j \in 1..Len(leads.rows) : leads.rows[j].idx = idx}

\* C30: the table calculate_metrics builds has one row at most for a Make
\* and Model_Base, so the join duplicates no listing: every listing handed
\* to filter_attractive_leads is among its leads once at most, and the leads
\* are no more than the listings handed in.
C30_JoinNeverDuplicates ==
    /\ Aggregated =>
          \A k1, k2 \in 1..Len(metrics.rows) :
              (/\ metrics.rows[k1].make_original_case
                     = metrics.rows[k2].make_original_case
               /\ metrics.rows[k1].model_original_case
                     = metrics.rows[k2].model_original_case) => k1 = k2
    /\ Filtered =>
          /\ \A i \in 1..Len(leads.df_leads) :
                /\ Cardinality(JoinedTo(leads.df_leads[i])) <= 1
                /\ Cardinality(LeadsOf(leads.df_leads[i].idx)) <= 1
          /\ Len(leads.rows) <= Len(leads.df_leads)

\* a lead came out of a join with a table of two metric rows or more, and
\* is priced below the mean of each
C30_Witness ==
    /\ Filtered
    /\ Len(leads.df_metrics) >= 2
    /\ \E j \in 1..Len(leads.rows) :
          \A k \in 1..Len(leads.df_metrics) :
              Below(leads.rows[j].Price, leads.df_metrics[k])

====
